---- MODULE Spec2Model ----
(***************************************************************************)
(* Abandonment-recovery engine: the Recovery Worker's evaluation and       *)
(* dispatch pipeline over the shared Redis state store, together with the  *)
(* Event Tracker that writes and deletes journey state.                    *)
(*                                                                         *)
(* One (journey_id, customer_number) pair is modelled; every key of the    *)
(* store is scoped by that pair, so distinct pairs never share a key.      *)
(* Time is counted in minutes and the clock is observed every              *)
(* MessageLockTTL minutes; the thresholds of the configurations are        *)
(* multiples of that period.  A worker may be arbitrarily slow between two *)
(* of its steps.  The 24h TTL of the state and history keys lies beyond    *)
(* the time horizon and is not modelled; the TTL of the message lock is.   *)
(***************************************************************************)
EXTENDS Integers, Sequences, FiniteSets, TLC

(* ------------------------------ bounds --------------------------------- *)
MaxTicks == 2
MaxRequests == 3
MaxEvalTime == 3
MaxEvalHist == 2
MaxRules == 3
MaxLockTime == 6
MaxLockCalls == 3
MaxStsTicks == 2
MaxStsCalls == 3
MaxRetries == 2
MaxPages == 2
MaxLoadCalls == 3
MaxGroups == 2

(* --------------------------- program constants ------------------------- *)
MessageLockTTL == 5

Workers == {"w1", "w2"}
Steps == {"s1", "s2"}
Payloads == {"p1"}
Trackers == {"t1", "t2"}

NoState == [absent |-> TRUE]
NoTime == -1
NoRule == [name |-> ""]

VARIABLES
    cfg,          \* the JourneyConfig the loader returned for the journey
    now,          \* server clock, minutes
    store_state,  \* key journey:{id}:{customer}:state   (NoState when absent)
    store_hist,   \* key journey:{id}:{customer}:repiques (<<>> when absent)
    locks,        \* live keys journey:{id}:{customer}:lock:{rule}:{attempt}
    pc,           \* per worker: position inside ProcessJourney
    wstate,       \* per worker: the JourneyState handed over by the scan
    whist,        \* per worker: history read by ProcessJourney
    wsel,         \* per worker: EvaluationResult chosen by FindTriggeredRule
    wentry,       \* per worker: RepiqueEntry being appended
    wbuf,         \* per worker: value read by a read-modify-write in flight
    did,          \* per worker: store/messenger calls of the current dispatch
    ret,          \* per worker: what ProcessJourney / sendRecoveryMessage returned
    ovl,          \* per worker: its append happened while the other worker was in flight
    fin,          \* FinishJourney calls completed since the last event arrived (up to 2)
    log,          \* every lock won, history append and send so far, by lock key
    runs,         \* worker dispatches started so far
    events,       \* Event Tracker requests accepted so far
    tpc,          \* per Event Tracker invocation slot: position inside RecordEvent
    treq,         \* per Event Tracker invocation slot: request being recorded
    ev,           \* inputs of the component a dedicated specification runs
    evOut,        \* output or running state of that component
    token,        \* STSClient.token (EmptyToken: "")
    expiresAt,    \* STSClient.expiresAt, seconds
    mu,           \* STSClient.mu: the goroutine holding it exclusively, or "none"
    gpc,          \* per goroutine: position inside GetToken
    gcall,        \* per goroutine: its current or last GetToken call
    exchanges,    \* HTTP exchanges with the STS endpoint so far
    pairs,        \* every (token, expiry) written to the cache, in order
    stsCalls,     \* GetToken calls started so far
    stsNow        \* clock of the STS client, seconds

stsVars == <<token, expiresAt, mu, gpc, gcall, exchanges, pairs, stsCalls, stsNow>>
envVars == <<cfg, ev, evOut, stsVars>>
ghostVars == <<ovl, fin>>
trackerVars == <<tpc, treq, events>>
vars == <<cfg, now, store_state, store_hist, locks, pc, wstate, whist, wsel,
          wentry, wbuf, did, ret, ovl, fin, log, runs, events, tpc, treq, ev, evOut,
          stsVars>>

(* ------------------------- journey configuration ----------------------- *)
MkRule(n, en, im, ma) ==
    [name |-> n, enabled |-> en, inactive_minutes |-> im, max_attempts |-> ma,
     template |-> n]

CfgTight ==
    [journey |-> "j1",
     global |-> [enabled |-> TRUE, max_total_attempts |-> 1,
                 min_interval_between_attempts_minutes |-> 10],
     steps |-> <<[name |-> "s1",
                  recovery_rules |-> <<MkRule("r1", TRUE, 5, 1),
                                       MkRule("r2", TRUE, 10, 1)>>]>>]

CfgLoose ==
    [journey |-> "j1",
     global |-> [enabled |-> TRUE, max_total_attempts |-> 3,
                 min_interval_between_attempts_minutes |-> 5],
     steps |-> <<[name |-> "s1",
                  recovery_rules |-> <<MkRule("r1", TRUE, 5, 2),
                                       MkRule("r2", TRUE, 10, 1)>>]>>]

\* A journey switched off globally.
CfgDisabled == [CfgLoose EXCEPT !.global.enabled = FALSE]

Configs == {CfgTight, CfgLoose, CfgDisabled}

\* Variant: the rules of the steps are not looked at.
ValidateJourneyConfig_StepsOnly(c) ==
    /\ c.journey # ""
    /\ c.global.max_total_attempts > 0
    /\ c.global.min_interval_between_attempts_minutes > 0
    /\ \A i \in DOMAIN c.steps : c.steps[i].name # ""

ValidateJourneyConfig(c) ==
    /\ c.journey # ""
    /\ c.global.max_total_attempts > 0
    /\ c.global.min_interval_between_attempts_minutes > 0
    /\ \A i \in DOMAIN c.steps :
          /\ c.steps[i].name # ""
          /\ \A j \in DOMAIN c.steps[i].recovery_rules :
                LET r == c.steps[i].recovery_rules[j] IN
                /\ r.name # ""
                /\ r.inactive_minutes > 0
                /\ r.max_attempts > 0
                /\ r.template # ""

\* Variant: a step name the config does not know gets the first step.
FindStepByName_FirstWhenAbsent(c, name) ==
    LET idx == {i \in DOMAIN c.steps : c.steps[i].name = name} IN
    IF idx = {} THEN c.steps[1]
    ELSE c.steps[CHOOSE i \in idx : \A k \in idx : i <= k]

FindStepByName(c, name) ==
    LET idx == {i \in DOMAIN c.steps : c.steps[i].name = name} IN
    IF idx = {} THEN [name |-> ""]
    ELSE c.steps[CHOOSE i \in idx : \A k \in idx : i <= k]

AllRules(c) ==
    UNION {{c.steps[i].recovery_rules[j] : j \in DOMAIN c.steps[i].recovery_rules} :
              i \in DOMAIN c.steps}

(* ----------------------------- RepiqueHistory -------------------------- *)
GetRuleAttemptCount(h, ruleName) ==
    Cardinality({i \in DOMAIN h : h[i].rule = ruleName})

GetTotalAttemptCount(h) == Len(h)

RECURSIVE LastAttemptFrom(_, _, _, _)
LastAttemptFrom(h, ruleName, i, lastTime) ==
    IF i > Len(h) THEN lastTime
    ELSE IF h[i].rule = ruleName /\ (lastTime = NoTime \/ h[i].sent_at > lastTime)
         THEN LastAttemptFrom(h, ruleName, i + 1, h[i].sent_at)
         ELSE LastAttemptFrom(h, ruleName, i + 1, lastTime)

GetLastAttemptTime(h, ruleName) == LastAttemptFrom(h, ruleName, 1, NoTime)

TimeSinceLastInteraction(st, t) == t - st.last_interaction_at

(* ------------------------------- evaluator ----------------------------- *)
\* Reason texts, written without diacritics.
ReasonDisabled == "regra desabilitada"
ReasonGlobalMax == "maximo global de tentativas excedido"
ReasonRuleMax == "maximo de tentativas da regra excedido"
ReasonMinInterval == "intervalo minimo nao atingido"
ReasonInactivity == "tempo de inatividade nao atingido"
ReasonAllMet == "todas as condicoes atendidas"

Result(trig, rule, reason) ==
    [ShouldTrigger |-> trig, Rule |-> rule, Reason |-> reason]

\* Variant: the per-rule budget is tested before the global budget.
EvaluateRecoveryRule_RuleMaxFirst(rule, globalCfg, st, h, t) ==
    IF ~rule.enabled THEN Result(FALSE, rule, ReasonDisabled)
    ELSE IF GetRuleAttemptCount(h, rule.name) >= rule.max_attempts
    THEN Result(FALSE, rule, ReasonRuleMax)
    ELSE IF GetTotalAttemptCount(h) >= globalCfg.max_total_attempts
    THEN Result(FALSE, rule, ReasonGlobalMax)
    ELSE IF /\ GetLastAttemptTime(h, rule.name) # NoTime
            /\ t - GetLastAttemptTime(h, rule.name)
                  < globalCfg.min_interval_between_attempts_minutes
    THEN Result(FALSE, rule, ReasonMinInterval)
    ELSE IF TimeSinceLastInteraction(st, t) < rule.inactive_minutes
    THEN Result(FALSE, rule, ReasonInactivity)
    ELSE Result(TRUE, rule, ReasonAllMet)

\* Variant: the two time thresholds must be exceeded, not merely reached.
EvaluateRecoveryRule_StrictThresholds(rule, globalCfg, st, h, t) ==
    IF ~rule.enabled THEN Result(FALSE, rule, ReasonDisabled)
    ELSE IF GetTotalAttemptCount(h) >= globalCfg.max_total_attempts
    THEN Result(FALSE, rule, ReasonGlobalMax)
    ELSE IF GetRuleAttemptCount(h, rule.name) >= rule.max_attempts
    THEN Result(FALSE, rule, ReasonRuleMax)
    ELSE IF /\ GetLastAttemptTime(h, rule.name) # NoTime
            /\ t - GetLastAttemptTime(h, rule.name)
                  <= globalCfg.min_interval_between_attempts_minutes
    THEN Result(FALSE, rule, ReasonMinInterval)
    ELSE IF TimeSinceLastInteraction(st, t) <= rule.inactive_minutes
    THEN Result(FALSE, rule, ReasonInactivity)
    ELSE Result(TRUE, rule, ReasonAllMet)

EvaluateRecoveryRule(rule, globalCfg, st, h, t) ==
    IF ~rule.enabled THEN Result(FALSE, rule, ReasonDisabled)
    ELSE IF GetTotalAttemptCount(h) >= globalCfg.max_total_attempts
    THEN Result(FALSE, rule, ReasonGlobalMax)
    ELSE IF GetRuleAttemptCount(h, rule.name) >= rule.max_attempts
    THEN Result(FALSE, rule, ReasonRuleMax)
    ELSE IF /\ GetLastAttemptTime(h, rule.name) # NoTime
            /\ t - GetLastAttemptTime(h, rule.name)
                  < globalCfg.min_interval_between_attempts_minutes
    THEN Result(FALSE, rule, ReasonMinInterval)
    ELSE IF TimeSinceLastInteraction(st, t) < rule.inactive_minutes
    THEN Result(FALSE, rule, ReasonInactivity)
    ELSE Result(TRUE, rule, ReasonAllMet)

TriggeredResults(rules, globalCfg, st, h, t) ==
    SelectSeq([i \in DOMAIN rules |->
                  EvaluateRecoveryRule(rules[i], globalCfg, st, h, t)],
              LAMBDA r : r.ShouldTrigger)

\* Variant: the first triggered rule is kept whatever the later ones are.
SelectHighest_FirstTriggered(results, i, selected) == selected

\* Variant: on equal inactive_minutes the later rule replaces the selection.
RECURSIVE SelectHighest_LastWins(_, _, _)
SelectHighest_LastWins(results, i, selected) ==
    IF i > Len(results) THEN selected
    ELSE IF results[i].Rule.inactive_minutes >= selected.Rule.inactive_minutes
         THEN SelectHighest_LastWins(results, i + 1, results[i])
         ELSE SelectHighest_LastWins(results, i + 1, selected)

RECURSIVE SelectHighest(_, _, _)
SelectHighest(results, i, selected) ==
    IF i > Len(results) THEN selected
    ELSE IF results[i].Rule.inactive_minutes > selected.Rule.inactive_minutes
         THEN SelectHighest(results, i + 1, results[i])
         ELSE SelectHighest(results, i + 1, selected)

NoResult == Result(FALSE, NoRule, "")

FindTriggeredRule(rules, globalCfg, st, h, t) ==
    LET triggeredResults == TriggeredResults(rules, globalCfg, st, h, t) IN
    IF Len(triggeredResults) = 0 THEN NoResult
    ELSE SelectHighest(triggeredResults, 2, triggeredResults[1])

(* ------------------------------ state store --------------------------- *)
\* Variant: the key is built from the rule name alone.
LockKey_RuleOnly(ruleName, attemptNumber) == [rule |-> ruleName, attempt |-> 0]

\* journey:{id}:{customer}:lock:{rule_name}:{attempt_number} of the one journey.
LockKey(ruleName, attemptNumber) == [rule |-> ruleName, attempt |-> attemptNumber]

LockHeld(lk, key) == \E l \in lk : l.rule = key.rule /\ l.attempt = key.attempt

\* SETNX key "locked" EX MessageLockTTL: the key is created only when absent.
SetNX(lk, key, t) ==
    IF LockHeld(lk, key) THEN lk
    ELSE lk \cup {[rule |-> key.rule, attempt |-> key.attempt,
                   exp |-> t + MessageLockTTL]}

AcquireMessageLock(lk, ruleName, attemptNumber) ==
    ~LockHeld(lk, LockKey(ruleName, attemptNumber))

\* Redis drops a key once its TTL has elapsed.
Expire(lk, t) == {l \in lk : l.exp > t}

\* JSON keys of a stored JourneyState (the struct tags).
StateKeys == {"step", "metadata", "last_interaction_at", "step_started_at",
              "journey_started_at"}

\* json.Marshal of a JourneyState: the document SaveJourneyState SETs.
MarshalState(st) ==
    [k \in StateKeys |->
        CASE k = "step" -> st.step
          [] k = "metadata" -> st.payload
          [] k = "last_interaction_at" -> st.last_interaction_at
          [] k = "step_started_at" -> st.step_started_at
          [] k = "journey_started_at" -> st.journey_started_at]

\* Variant: the two start times are read from each other's key.
UnmarshalState_StartsSwapped(doc) ==
    [step |-> doc["step"], payload |-> doc["metadata"],
     last_interaction_at |-> doc["last_interaction_at"],
     step_started_at |-> doc["journey_started_at"],
     journey_started_at |-> doc["step_started_at"]]

\* json.Unmarshal of a stored document into a JourneyState.
UnmarshalState(doc) ==
    [step |-> doc["step"], payload |-> doc["metadata"],
     last_interaction_at |-> doc["last_interaction_at"],
     step_started_at |-> doc["step_started_at"],
     journey_started_at |-> doc["journey_started_at"]]

\* The state key after SaveJourneyState(st), as a later read decodes it.
SavedAs(st) == UnmarshalState(MarshalState(st))

\* GetJourneyState on the state key, Redis answering: the state and the error.
GetJourneyState(key) ==
    IF key = NoState THEN [state |-> NoState, err |-> "ErrNotFound"]
    ELSE [state |-> key, err |-> "nil"]

\* The answer of GET on a key that does not exist.
RedisNil == [nil |-> TRUE]

\* GET on the repiques key: the key exists only once an entry was appended,
\* and then holds the document that json.Marshal made of the history.
RepiquesDoc(h) == IF h = <<>> THEN RedisNil ELSE [entries |-> h]

\* Variant: a missing repiques key is reported as ErrNotFound.
GetRepiqueHistory_NotFoundOnNil(raw) ==
    IF raw = RedisNil THEN [history |-> <<>>, err |-> "ErrNotFound"]
    ELSE [history |-> raw.entries, err |-> "nil"]

\* GetRepiqueHistory, Redis answering: redis.Nil gives an empty history.
GetRepiqueHistory(raw) ==
    IF raw = RedisNil THEN [history |-> <<>>, err |-> "nil"]
    ELSE [history |-> raw.entries, err |-> "nil"]

\* AppendRepiqueHistory, second half: the value written back by SET.
AppendedHistory(readHistory, entry) == Append(readHistory, entry)

\* UpdateLastInteractionAt, second half: the value written back by SET.
TouchedState(readState, timestamp) ==
    [readState EXCEPT !.last_interaction_at = timestamp]

\* Variant: deleting a key that does not exist is reported as an error.
DeleteJourneyState_MissingIsError(st, storeOk) ==
    [state |-> IF storeOk THEN NoState ELSE st,
     err |-> ~storeOk \/ st = NoState]

\* DeleteJourneyState: DEL of the state key; the new value of the key and
\* whether an error is returned, storeOk telling whether Redis answered.
DeleteJourneyState(st, storeOk) ==
    [state |-> IF storeOk THEN NoState ELSE st, err |-> ~storeOk]

(* ------------------------------ Event Tracker -------------------------- *)
\* Variant: step_started_at of the state read is kept whatever the step is.
BuildState_KeepStepStart(req) ==
    LET fresh == [step |-> req.step, payload |-> req.payload,
                  last_interaction_at |-> req.now,
                  step_started_at |-> req.now,
                  journey_started_at |-> req.now] IN
    IF req.existing = NoState THEN fresh
    ELSE [fresh EXCEPT
            !.journey_started_at = req.existing.journey_started_at,
            !.step_started_at = req.existing.step_started_at]

\* The JourneyState RecordEvent builds from the request and the state it read.
BuildState(req) ==
    LET fresh == [step |-> req.step, payload |-> req.payload,
                  last_interaction_at |-> req.now,
                  step_started_at |-> req.now,
                  journey_started_at |-> req.now] IN
    IF req.existing = NoState THEN fresh
    ELSE [fresh EXCEPT
            !.journey_started_at = req.existing.journey_started_at,
            !.step_started_at = IF req.existing.step = req.step
                                THEN req.existing.step_started_at
                                ELSE req.now]

(* -------------------------------- Processor ---------------------------- *)
Call(op, res) == [op |-> op, res |-> res]

RetRunning == [process |-> "running", send |-> "none", touch |-> "none"]
NoEntry == [rule |-> ""]
NoBuf == [none |-> TRUE]

\* Variant: the message is sent first and the history is written afterwards.
NextStep_SendBeforeAppend(step, outcome) ==
    CASE step = "acquire_lock" /\ outcome = "ok" -> "send"
      [] step = "send" /\ outcome = "ok" -> "append_get"
      [] step = "append_get" /\ outcome = "ok" -> "append_set"
      [] step = "append_set" /\ outcome = "ok" -> "touch_get"
      [] step = "touch_get" /\ outcome = "ok" -> "touch_set"
      [] OTHER -> "done"

\* Variant: a failed send is logged and the dispatch goes on to the touch.
NextStep_TouchAfterFailedSend(step, outcome) ==
    CASE step = "acquire_lock" /\ outcome = "ok" -> "append_get"
      [] step = "append_get" /\ outcome = "ok" -> "append_set"
      [] step = "append_set" /\ outcome = "ok" -> "send"
      [] step = "send" -> "touch_get"
      [] step = "touch_get" /\ outcome = "ok" -> "touch_set"
      [] OTHER -> "done"

\* Variant: a refused lock is logged and the dispatch goes on to the append.
NextStep_AppendWhenHeld(step, outcome) ==
    CASE step = "acquire_lock" /\ outcome \in {"ok", "held"} -> "append_get"
      [] step = "append_get" /\ outcome = "ok" -> "append_set"
      [] step = "append_set" /\ outcome = "ok" -> "send"
      [] step = "send" /\ outcome = "ok" -> "touch_get"
      [] step = "touch_get" /\ outcome = "ok" -> "touch_set"
      [] OTHER -> "done"

\* A dispatch that ends after the append, before the message is handed over.
NextStep_NoSend(step, outcome) ==
    CASE step = "acquire_lock" /\ outcome = "ok" -> "append_get"
      [] step = "append_get" /\ outcome = "ok" -> "append_set"
      [] OTHER -> "done"

\* Control flow of sendRecoveryMessage: the step that follows `step` when it
\* ended with `outcome`.
NextStep(step, outcome) ==
    CASE step = "acquire_lock" /\ outcome = "ok" -> "append_get"
      [] step = "append_get" /\ outcome = "ok" -> "append_set"
      [] step = "append_set" /\ outcome = "ok" -> "send"
      [] step = "send" /\ outcome = "ok" -> "touch_get"
      [] step = "touch_get" /\ outcome = "ok" -> "touch_set"
      [] OTHER -> "done"

\* What sendRecoveryMessage returns when it ends at `step` with `outcome`.
SendReturn(step, outcome) ==
    IF outcome = "err" /\ step \in {"acquire_lock", "append_get", "append_set", "send"}
    THEN "err" ELSE "nil"

\* What UpdateLastInteractionAt returns when the dispatch ends at `step` with
\* `outcome`; "none" when the dispatch ended before calling it.
TouchReturn(step, outcome) ==
    IF step \notin {"touch_get", "touch_set"} THEN "none"
    ELSE IF outcome = "ok" THEN "nil"
    ELSE IF outcome = "notfound" THEN "ErrNotFound"
    ELSE "err"

AttemptNumber(h, rule) == GetRuleAttemptCount(h, rule.name) + 1

NewEntry(st, rule, h, t) ==
    [step |-> st.step, rule |-> rule.name, sent_at |-> t,
     template_used |-> rule.template, attempt_number |-> AttemptNumber(h, rule)]

\* The record of an operation on the lock key of the dispatch of worker w;
\* `again` tells a repetition of the operation on that key from its first time.
LogRec(w, op, again) ==
    [op |-> op, rule |-> wsel[w].Rule.name,
     attempt |-> AttemptNumber(whist[w], wsel[w].Rule), again |-> again]

Logged(w, op) ==
    IF LogRec(w, op, FALSE) \in log
    THEN log \cup {LogRec(w, op, TRUE)}
    ELSE log \cup {LogRec(w, op, FALSE)}

Other(w) == CHOOSE o \in Workers : o # w

\* ProcessJourney of worker w has been entered and has not returned.
InFlight(w) == pc[w] \notin {"idle", "done"}

\* Workers are interchangeable: the idle worker of least name takes the next run.
NextIdle == CHOOSE w \in Workers : pc[w] = "idle" /\ (w = "w1" \/ pc["w1"] # "idle")

\* One step of sendRecoveryMessage ends: record the call, move on or return.
Advance(w, step, op, outcome) ==
    /\ pc' = [pc EXCEPT ![w] = NextStep(step, outcome)]
    /\ did' = [did EXCEPT ![w] = IF op = "" THEN @ ELSE Append(@, Call(op, outcome))]
    /\ ret' = [ret EXCEPT ![w] =
                 IF NextStep(step, outcome) = "done"
                 THEN [process |-> "nil", send |-> SendReturn(step, outcome),
                       touch |-> TouchReturn(step, outcome)]
                 ELSE @]

\* The orchestrator hands a scanned state to ProcessJourney.
Scan(w) ==
    /\ pc[w] = "idle"
    /\ w = NextIdle
    /\ runs + events < MaxRequests
    /\ runs' = runs + 1
    /\ store_state # NoState
    /\ wstate' = [wstate EXCEPT ![w] = store_state]
    /\ pc' = [pc EXCEPT ![w] = "process"]
    /\ UNCHANGED <<now, store_state, store_hist, locks, whist, wsel, wentry,
                   wbuf, did, ret, log, trackerVars, envVars, ghostVars>>

GetHistory(w) ==
    /\ pc[w] = "process"
    /\ \/ /\ ~cfg.global.enabled
          /\ pc' = [pc EXCEPT ![w] = "done"]
          /\ ret' = [ret EXCEPT ![w] = [process |-> "nil", send |-> "none", touch |-> "none"]]
          /\ UNCHANGED <<whist, did>>
       \/ /\ cfg.global.enabled
          /\ GetRepiqueHistory(RepiquesDoc(store_hist)).err = "nil"
          /\ whist' = [whist EXCEPT ![w] =
                         GetRepiqueHistory(RepiquesDoc(store_hist)).history]
          /\ did' = [did EXCEPT ![w] = Append(@, Call("GetHistory", "ok"))]
          /\ pc' = [pc EXCEPT ![w] = "evaluate"]
          /\ UNCHANGED ret
       \/ /\ cfg.global.enabled
          /\ did' = [did EXCEPT ![w] = Append(@, Call("GetHistory", "err"))]
          /\ pc' = [pc EXCEPT ![w] = "done"]
          /\ ret' = [ret EXCEPT ![w] = [process |-> "JourneyError", send |-> "none", touch |-> "none"]]
          /\ UNCHANGED whist
    /\ UNCHANGED <<now, store_state, store_hist, locks, wstate, wsel, wentry,
                   wbuf, log, runs, trackerVars, envVars, ghostVars>>

Evaluate(w) ==
    /\ pc[w] = "evaluate"
    /\ LET stepCfg == FindStepByName(cfg, wstate[w].step)
           triggeredRule ==
               IF stepCfg.name = "" THEN NoResult
               ELSE FindTriggeredRule(stepCfg.recovery_rules, cfg.global,
                                      wstate[w], whist[w], now)
       IN \/ /\ triggeredRule = NoResult
             /\ pc' = [pc EXCEPT ![w] = "done"]
             /\ ret' = [ret EXCEPT ![w] = [process |-> "nil", send |-> "none", touch |-> "none"]]
             /\ UNCHANGED wsel
          \/ /\ triggeredRule # NoResult
             /\ wsel' = [wsel EXCEPT ![w] = triggeredRule]
             /\ pc' = [pc EXCEPT ![w] = "acquire_lock"]
             /\ UNCHANGED ret
    /\ UNCHANGED <<now, store_state, store_hist, locks, wstate, whist, wentry,
                   wbuf, did, log, runs, trackerVars, envVars, ghostVars>>

AcquireLock(w) ==
    /\ pc[w] = "acquire_lock"
    /\ LET rule == wsel[w].Rule
           attemptNumber == AttemptNumber(whist[w], rule)
       IN \/ /\ AcquireMessageLock(locks, rule.name, attemptNumber)
             /\ locks' = SetNX(locks, LockKey(rule.name, attemptNumber), now)
             /\ log' = Logged(w, "lock")
             /\ Advance(w, "acquire_lock", "AcquireLock", "ok")
          \/ /\ ~AcquireMessageLock(locks, rule.name, attemptNumber)
             /\ Advance(w, "acquire_lock", "AcquireLock", "held")
             /\ UNCHANGED <<locks, log>>
          \/ /\ Advance(w, "acquire_lock", "AcquireLock", "err")
             /\ UNCHANGED <<locks, log>>
    /\ UNCHANGED <<now, store_state, store_hist, wstate, whist, wsel, wentry,
                   wbuf, runs, trackerVars, envVars, ghostVars>>

\* AppendRepiqueHistory, first half: entry stamped with time.Now(), then GET.
AppendGet(w) ==
    /\ pc[w] = "append_get"
    /\ \/ /\ wentry' = [wentry EXCEPT ![w] =
                          NewEntry(wstate[w], wsel[w].Rule, whist[w], now)]
          /\ GetRepiqueHistory(RepiquesDoc(store_hist)).err = "nil"
          /\ wbuf' = [wbuf EXCEPT ![w] =
                        [history |-> GetRepiqueHistory(RepiquesDoc(store_hist)).history]]
          /\ Advance(w, "append_get", "", "ok")
       \/ /\ Advance(w, "append_get", "AppendHistory", "err")
          /\ UNCHANGED <<wentry, wbuf>>
    /\ UNCHANGED <<now, store_state, store_hist, locks, wstate, whist, wsel,
                   log, runs, trackerVars, envVars, ghostVars>>

\* AppendRepiqueHistory, second half: SET of the read history plus the entry.
AppendSet(w) ==
    /\ pc[w] = "append_set"
    /\ \/ /\ store_hist' = AppendedHistory(wbuf[w].history, wentry[w])
          /\ log' = Logged(w, "append")
          /\ ovl' = [ovl EXCEPT ![w] = InFlight(Other(w))]
          /\ Advance(w, "append_set", "AppendHistory", "ok")
       \/ /\ Advance(w, "append_set", "AppendHistory", "err")
          /\ UNCHANGED <<store_hist, log, ovl>>
    /\ wbuf' = [wbuf EXCEPT ![w] = NoBuf]
    /\ UNCHANGED <<now, store_state, locks, wstate, whist, wsel, wentry,
                   runs, trackerVars, envVars, fin>>

\* messenger.Send: the message is handed over; the messenger reports ok or an error.
Send(w) ==
    /\ pc[w] = "send"
    /\ log' = Logged(w, "send")
    /\ \/ Advance(w, "send", "Send", "ok")
       \/ Advance(w, "send", "Send", "err")
    /\ UNCHANGED <<now, store_state, store_hist, locks, wstate, whist, wsel,
                   wentry, wbuf, runs, trackerVars, envVars, ghostVars>>

\* UpdateLastInteractionAt, first half: time.Now() is taken, then GET state.
TouchGet(w) ==
    /\ pc[w] = "touch_get"
    /\ \/ /\ GetJourneyState(store_state).err = "nil"
          /\ wbuf' = [wbuf EXCEPT ![w] = [state |-> GetJourneyState(store_state).state,
                                          timestamp |-> now]]
          /\ Advance(w, "touch_get", "", "ok")
       \/ /\ GetJourneyState(store_state).err = "ErrNotFound"
          /\ Advance(w, "touch_get", "TouchInteraction", "notfound")
          /\ UNCHANGED wbuf
       \/ /\ Advance(w, "touch_get", "TouchInteraction", "err")
          /\ UNCHANGED wbuf
    /\ UNCHANGED <<now, store_state, store_hist, locks, wstate, whist, wsel,
                   wentry, log, runs, trackerVars, envVars, ghostVars>>

\* UpdateLastInteractionAt, second half: SaveJourneyState of the touched state.
TouchSet(w) ==
    /\ pc[w] = "touch_set"
    /\ \/ /\ store_state' = SavedAs(TouchedState(wbuf[w].state, wbuf[w].timestamp))
          /\ Advance(w, "touch_set", "TouchInteraction", "ok")
       \/ /\ Advance(w, "touch_set", "TouchInteraction", "err")
          /\ UNCHANGED store_state
    /\ wbuf' = [wbuf EXCEPT ![w] = NoBuf]
    /\ UNCHANGED <<now, store_hist, locks, wstate, whist, wsel, wentry,
                   log, runs, trackerVars, envVars, ghostVars>>

\* ProcessJourney has returned; the worker is free for the next run.
Return(w) ==
    /\ pc[w] = "done"
    /\ pc' = [pc EXCEPT ![w] = "idle"]
    /\ wstate' = [wstate EXCEPT ![w] = NoState]
    /\ whist' = [whist EXCEPT ![w] = <<>>]
    /\ wsel' = [wsel EXCEPT ![w] = NoResult]
    /\ wentry' = [wentry EXCEPT ![w] = NoEntry]
    /\ did' = [did EXCEPT ![w] = <<>>]
    /\ ret' = [ret EXCEPT ![w] = RetRunning]
    /\ ovl' = [ovl EXCEPT ![w] = FALSE]
    /\ UNCHANGED <<now, store_state, store_hist, locks, wbuf, log,
                   runs, trackerVars, envVars, fin>>

(* ----------------------------- Event Tracker --------------------------- *)
NoReq == [none |-> TRUE]

\* RecordEvent, first half: now := time.Now(), then GetJourneyState.
RecordEventGet(t, step, payload) ==
    /\ tpc[t] = "idle"
    /\ runs + events < MaxRequests
    /\ events' = events + 1
    /\ \/ /\ treq' = [treq EXCEPT ![t] = [step |-> step, payload |-> payload,
                                          now |-> now,
                                          existing |-> GetJourneyState(store_state).state]]
          /\ tpc' = [tpc EXCEPT ![t] = "save"]
       \/ UNCHANGED <<treq, tpc>>
    /\ fin' = 0
    /\ UNCHANGED <<now, store_state, store_hist, locks, pc, wstate, whist,
                   wsel, wentry, wbuf, did, ret, log, runs, envVars, ovl>>

\* RecordEvent, second half: SaveJourneyState of the built state.
RecordEventSave(t) ==
    /\ tpc[t] = "save"
    /\ tpc' = [tpc EXCEPT ![t] = "idle"]
    /\ treq' = [treq EXCEPT ![t] = NoReq]
    /\ UNCHANGED events
    /\ \/ store_state' = SavedAs(BuildState(treq[t]))
       \/ UNCHANGED store_state
    /\ UNCHANGED <<now, store_hist, locks, pc, wstate, whist, wsel, wentry,
                   wbuf, did, ret, log, runs, envVars, ghostVars>>

\* FinishJourney: DeleteJourneyState, then the result is returned.
FinishJourney(t) ==
    /\ tpc[t] = "idle"
    /\ runs + events < MaxRequests
    /\ events' = events + 1
    /\ \E storeOk \in BOOLEAN :
          LET res == DeleteJourneyState(store_state, storeOk) IN
          /\ store_state' = res.state
          /\ fin' = IF res.err THEN fin ELSE IF fin < 2 THEN fin + 1 ELSE fin
    /\ UNCHANGED <<now, store_hist, locks, pc, wstate, whist, wsel, wentry,
                   wbuf, did, ret, log, runs, tpc, treq, envVars, ovl>>

(* --------------------------------- clock ------------------------------- *)
Tick ==
    /\ now < MaxTicks * MessageLockTTL
    /\ now' = now + MessageLockTTL
    /\ locks' = Expire(locks, now + MessageLockTTL)
    /\ UNCHANGED <<store_state, store_hist, pc, wstate, whist, wsel, wentry,
                   wbuf, did, ret, log, runs, trackerVars, envVars, ghostVars>>

(* ------------------------------ STS client ----------------------------- *)
Goroutines == {"g1", "g2"}

\* Seconds before the expiry at which a cached token stops being served.
RefreshBuffer == 60

\* The clock of the STS client advances by this many seconds at a time.
StsStep == RefreshBuffer \div 2

\* expires_in values the STS endpoint answers with.
ExpiresIns == {RefreshBuffer, RefreshBuffer + StsStep, 2 * RefreshBuffer}

\* The empty string as an access token; the n-th exchange issues token n.
EmptyToken == 0

\* time.Time{}: the expiry of a client that never fetched a token.
ZeroTime == 0 - 1

\* What one HTTP exchange, the n-th, can come back with.
StsResponses(n) ==
    {[kind |-> "transport", status |-> 0, parses |-> FALSE,
      access_token |-> EmptyToken, expires_in |-> 0],
     [kind |-> "http", status |-> 500, parses |-> TRUE,
      access_token |-> n, expires_in |-> 2 * RefreshBuffer],
     [kind |-> "http", status |-> 200, parses |-> FALSE,
      access_token |-> EmptyToken, expires_in |-> 0],
     [kind |-> "http", status |-> 200, parses |-> TRUE,
      access_token |-> EmptyToken, expires_in |-> 2 * RefreshBuffer]}
    \cup {[kind |-> "http", status |-> 200, parses |-> TRUE,
           access_token |-> n, expires_in |-> e] : e \in ExpiresIns}

FetchFailed(why) == [tok |-> EmptyToken, expiresIn |-> 0, err |-> why]

\* Variant: an empty access_token is taken as a token.
fetchToken_AcceptEmpty(resp) ==
    IF resp.kind = "transport" THEN FetchFailed("send request")
    ELSE IF resp.status # 200 THEN FetchFailed("STS error")
    ELSE IF ~resp.parses THEN FetchFailed("unmarshal response")
    ELSE [tok |-> resp.access_token, expiresIn |-> resp.expires_in, err |-> "nil"]

\* fetchToken: the token and expires_in of a response, or the error.
fetchToken(resp) ==
    IF resp.kind = "transport" THEN FetchFailed("send request")
    ELSE IF resp.status # 200 THEN FetchFailed("STS error")
    ELSE IF ~resp.parses THEN FetchFailed("unmarshal response")
    ELSE IF resp.access_token = EmptyToken THEN FetchFailed("empty access token")
    ELSE [tok |-> resp.access_token, expiresIn |-> resp.expires_in, err |-> "nil"]

\* Variant: the token is served until its very expiry.
CacheValid_NoBuffer(exp, t) == t < exp

\* time.Now().Before(c.expiresAt.Add(-60 * time.Second))
CacheValid(exp, t) == t < exp - RefreshBuffer

\* Variant: the cache is not looked at again under the exclusive lock.
DoubleCheck_Skipped(exp, t) == FALSE

\* The check repeated once the exclusive lock is held.
DoubleCheck(exp, t) == CacheValid(exp, t)

NoFetch == [tok |-> EmptyToken, expiresIn |-> 0, err |-> "none"]

\* A GetToken call: `miss` is the number of cache writes when the first check
\* missed, `recheckAt` the time of the second check, `ex` the exchanges it
\* made, `how` the path it returned by, (tok, err) what it returned and `exp`
\* the expiry it served the token against.
NoCall == [status |-> "none", miss |-> 0 - 1, recheckAt |-> 0 - 1, ex |-> 0,
           fetched |-> NoFetch, how |-> "none", tok |-> EmptyToken,
           exp |-> ZeroTime, err |-> "none"]

NewCall == [NoCall EXCEPT !.status = "running"]

Returned(c, how, tok, exp, err) ==
    [c EXCEPT !.status = "returned", !.how = how, !.tok = tok, !.exp = exp,
              !.err = err]

StsIdle ==
    /\ token = EmptyToken
    /\ expiresAt = ZeroTime
    /\ mu = "none"
    /\ gpc = [g \in Goroutines |-> "idle"]
    /\ gcall = [g \in Goroutines |-> NoCall]
    /\ exchanges = 0
    /\ pairs = <<>>
    /\ stsCalls = 0
    /\ stsNow = 0

workerVars == <<cfg, ev, evOut, now, store_state, store_hist, locks, pc, wstate,
                whist, wsel, wentry, wbuf, did, ret, ovl, fin, log, runs, events,
                tpc, treq>>

StsCall(g) ==
    /\ gpc[g] = "idle"
    /\ stsCalls < MaxStsCalls
    /\ stsCalls' = stsCalls + 1
    /\ gpc' = [gpc EXCEPT ![g] = "rlock"]
    /\ gcall' = [gcall EXCEPT ![g] = NewCall]
    /\ UNCHANGED <<token, expiresAt, mu, exchanges, pairs, stsNow, workerVars>>

\* RLock, first check, RUnlock.
FastCheck(g) ==
    /\ gpc[g] = "rlock"
    /\ mu = "none"
    /\ IF CacheValid(expiresAt, stsNow)
       THEN /\ gpc' = [gpc EXCEPT ![g] = "idle"]
            /\ gcall' = [gcall EXCEPT ![g] = Returned(@, "fast", token, expiresAt, "nil")]
       ELSE /\ gpc' = [gpc EXCEPT ![g] = "lock"]
            /\ gcall' = [gcall EXCEPT ![g].miss = Len(pairs)]
    /\ UNCHANGED <<token, expiresAt, mu, exchanges, pairs, stsCalls, stsNow, workerVars>>

\* c.mu.Lock()
LockMu(g) ==
    /\ gpc[g] = "lock"
    /\ mu = "none"
    /\ mu' = g
    /\ gpc' = [gpc EXCEPT ![g] = "recheck"]
    /\ UNCHANGED <<token, expiresAt, gcall, exchanges, pairs, stsCalls, stsNow, workerVars>>

\* Second check under the exclusive lock; a hit returns and unlocks.
Recheck(g) ==
    /\ gpc[g] = "recheck"
    /\ IF DoubleCheck(expiresAt, stsNow)
       THEN /\ gpc' = [gpc EXCEPT ![g] = "idle"]
            /\ gcall' = [gcall EXCEPT ![g] =
                            Returned([@ EXCEPT !.recheckAt = stsNow],
                                     "recheck", token, expiresAt, "nil")]
            /\ mu' = "none"
       ELSE /\ gpc' = [gpc EXCEPT ![g] = "fetch"]
            /\ gcall' = [gcall EXCEPT ![g].recheckAt = stsNow]
            /\ UNCHANGED mu
    /\ UNCHANGED <<token, expiresAt, exchanges, pairs, stsCalls, stsNow, workerVars>>

\* c.fetchToken: one HTTP exchange; an error returns and unlocks.
Fetch(g) ==
    /\ gpc[g] = "fetch"
    /\ exchanges' = exchanges + 1
    /\ \E resp \in StsResponses(exchanges + 1) :
          LET r == fetchToken(resp) IN
          IF r.err # "nil"
          THEN /\ gpc' = [gpc EXCEPT ![g] = "idle"]
               /\ gcall' = [gcall EXCEPT ![g] =
                               Returned([@ EXCEPT !.ex = @ + 1, !.fetched = r],
                                        "fetch", EmptyToken, expiresAt, "err")]
               /\ mu' = "none"
          ELSE /\ gpc' = [gpc EXCEPT ![g] = "update"]
               /\ gcall' = [gcall EXCEPT ![g].ex = @ + 1, ![g].fetched = r]
               /\ UNCHANGED mu
    /\ UNCHANGED <<token, expiresAt, pairs, stsCalls, stsNow, workerVars>>

\* The cache is written, the token returned, the lock released.
Update(g) ==
    /\ gpc[g] = "update"
    /\ token' = gcall[g].fetched.tok
    /\ expiresAt' = stsNow + gcall[g].fetched.expiresIn
    /\ pairs' = Append(pairs, [tok |-> gcall[g].fetched.tok,
                               expiresAt |-> stsNow + gcall[g].fetched.expiresIn,
                               expiresIn |-> gcall[g].fetched.expiresIn])
    /\ gpc' = [gpc EXCEPT ![g] = "idle"]
    /\ gcall' = [gcall EXCEPT ![g] =
                    Returned(@, "fetch", gcall[g].fetched.tok,
                             stsNow + gcall[g].fetched.expiresIn, "nil")]
    /\ mu' = "none"
    /\ UNCHANGED <<exchanges, stsCalls, stsNow, workerVars>>

StsTick ==
    /\ stsNow < MaxStsTicks * StsStep
    /\ stsNow' = stsNow + StsStep
    /\ UNCHANGED <<token, expiresAt, mu, gpc, gcall, exchanges, pairs, stsCalls,
                   workerVars>>

(* ------------------------------ specification -------------------------- *)
NoEval == [none |-> TRUE]

Init ==
    /\ cfg \in Configs
    /\ now = 0
    /\ store_state = NoState
    /\ store_hist = <<>>
    /\ locks = {}
    /\ pc = [w \in Workers |-> "idle"]
    /\ wstate = [w \in Workers |-> NoState]
    /\ whist = [w \in Workers |-> <<>>]
    /\ wsel = [w \in Workers |-> NoResult]
    /\ wentry = [w \in Workers |-> NoEntry]
    /\ wbuf = [w \in Workers |-> NoBuf]
    /\ did = [w \in Workers |-> <<>>]
    /\ ret = [w \in Workers |-> RetRunning]
    /\ log = {}
    /\ ovl = [w \in Workers |-> FALSE]
    /\ fin = 0
    /\ runs = 0
    /\ events = 0
    /\ tpc = [t \in Trackers |-> "idle"]
    /\ treq = [t \in Trackers |-> NoReq]
    /\ StsIdle
    /\ ev = NoEval
    /\ evOut = NoEval

Next ==
    \/ \E w \in Workers : Scan(w)
    \/ \E w \in Workers : GetHistory(w)
    \/ \E w \in Workers : Evaluate(w)
    \/ \E w \in Workers : AcquireLock(w)
    \/ \E w \in Workers : AppendGet(w)
    \/ \E w \in Workers : AppendSet(w)
    \/ \E w \in Workers : Send(w)
    \/ \E w \in Workers : TouchGet(w)
    \/ \E w \in Workers : TouchSet(w)
    \/ \E w \in Workers : Return(w)
    \/ \E step \in Steps, payload \in Payloads : RecordEventGet("t1", step, payload)
    \/ RecordEventSave("t1")
    \/ FinishJourney("t1")
    \/ Tick

Spec == Init /\ [][Next]_vars

(* ------------------------ evaluator specification ---------------------- *)
\* The evaluator applied to inputs drawn from bounded sets.
EvalRules ==
    {MkRule("r1", en, im, ma) : en \in BOOLEAN, im \in 1..2, ma \in 1..2}

EvalGlobals ==
    {[enabled |-> TRUE, max_total_attempts |-> mt,
      min_interval_between_attempts_minutes |-> mi] : mt \in 1..2, mi \in 1..2}

EvalEntries ==
    {[step |-> "s1", rule |-> r, sent_at |-> t, template_used |-> r,
      attempt_number |-> 1] : r \in {"r1", "r2"}, t \in 0..MaxEvalTime}

EvalHistories == UNION {[1..n -> EvalEntries] : n \in 0..MaxEvalHist}

EvalStates ==
    {[step |-> "s1", payload |-> "p1", last_interaction_at |-> t,
      step_started_at |-> 0, journey_started_at |-> 0] : t \in 0..MaxEvalTime}

InitEval ==
    /\ ev \in [rule : EvalRules, global : EvalGlobals, state : EvalStates,
               history : EvalHistories, now : 0..MaxEvalTime]
    /\ evOut = NoEval
    /\ cfg = CfgTight
    /\ now = 0
    /\ store_state = NoState
    /\ store_hist = <<>>
    /\ locks = {}
    /\ pc = [w \in Workers |-> "idle"]
    /\ wstate = [w \in Workers |-> NoState]
    /\ whist = [w \in Workers |-> <<>>]
    /\ wsel = [w \in Workers |-> NoResult]
    /\ wentry = [w \in Workers |-> NoEntry]
    /\ wbuf = [w \in Workers |-> NoBuf]
    /\ did = [w \in Workers |-> <<>>]
    /\ ret = [w \in Workers |-> RetRunning]
    /\ ovl = [w \in Workers |-> FALSE]
    /\ fin = 0
    /\ log = {}
    /\ runs = 0
    /\ events = 0
    /\ tpc = [t \in Trackers |-> "idle"]
    /\ treq = [t \in Trackers |-> NoReq]
    /\ StsIdle

EvalApply ==
    /\ evOut = NoEval
    /\ evOut' = EvaluateRecoveryRule(ev.rule, ev.global, ev.state, ev.history, ev.now)
    /\ UNCHANGED <<cfg, ev, now, store_state, store_hist, locks, pc, wstate, whist,
                   wsel, wentry, wbuf, did, ret, ovl, fin, log, runs, events, tpc, treq,
                   stsVars>>

NextEval == EvalApply

SpecEval == InitEval /\ [][NextEval]_vars

(* -------------------------------- claims ------------------------------- *)
\* The store/messenger calls of sendRecoveryMessage made so far by worker w.
(* ----------------------- concurrent tracker requests ------------------- *)
\* Two Event Tracker invocations may overlap; one worker process runs beside them.
NextTrack ==
    \/ \E t \in Trackers, step \in Steps, payload \in Payloads :
          RecordEventGet(t, step, payload)
    \/ \E t \in Trackers : RecordEventSave(t)
    \/ \E t \in Trackers : FinishJourney(t)
    \/ Scan("w1")
    \/ GetHistory("w1")
    \/ Evaluate("w1")
    \/ AcquireLock("w1")
    \/ AppendGet("w1")
    \/ AppendSet("w1")
    \/ Send("w1")
    \/ TouchGet("w1")
    \/ TouchSet("w1")
    \/ Return("w1")
    \/ Tick

SpecTrack == Init /\ [][NextTrack]_vars

(* ---------------------- several rules eligible at once ----------------- *)
\* A step with rules of 10, 20 and 30 minutes.
CfgMulti ==
    [journey |-> "j1",
     global |-> [enabled |-> TRUE, max_total_attempts |-> 3,
                 min_interval_between_attempts_minutes |-> 5],
     steps |-> <<[name |-> "s1",
                  recovery_rules |-> <<MkRule("r10", TRUE, 10, 1),
                                       MkRule("r20", TRUE, 20, 1),
                                       MkRule("r30", TRUE, 30, 1)>>]>>]

\* The customer's last event was recorded 20 minutes before the clock's origin.
StateMulti ==
    [step |-> "s1", payload |-> "p1", last_interaction_at |-> 0 - 20,
     step_started_at |-> 0 - 20, journey_started_at |-> 0 - 20]

InitMulti ==
    /\ cfg = CfgMulti
    /\ now = 0
    /\ store_state = StateMulti
    /\ store_hist = <<>>
    /\ locks = {}
    /\ pc = [w \in Workers |-> "idle"]
    /\ wstate = [w \in Workers |-> NoState]
    /\ whist = [w \in Workers |-> <<>>]
    /\ wsel = [w \in Workers |-> NoResult]
    /\ wentry = [w \in Workers |-> NoEntry]
    /\ wbuf = [w \in Workers |-> NoBuf]
    /\ did = [w \in Workers |-> <<>>]
    /\ ret = [w \in Workers |-> RetRunning]
    /\ log = {}
    /\ ovl = [w \in Workers |-> FALSE]
    /\ fin = 0
    /\ runs = 0
    /\ events = 0
    /\ tpc = [t \in Trackers |-> "idle"]
    /\ treq = [t \in Trackers |-> NoReq]
    /\ StsIdle
    /\ ev = NoEval
    /\ evOut = NoEval

\* One worker process runs one invocation after the other; no event arrives
\* while the rules fall due.
NextMulti ==
    \/ Scan("w1")
    \/ GetHistory("w1")
    \/ Evaluate("w1")
    \/ AcquireLock("w1")
    \/ AppendGet("w1")
    \/ AppendSet("w1")
    \/ Send("w1")
    \/ TouchGet("w1")
    \/ TouchSet("w1")
    \/ Return("w1")
    \/ Tick

SpecMulti == InitMulti /\ [][NextMulti]_vars

(* ------------------- the worker run again and again -------------------- *)
\* The customer went silent 20 minutes before the clock's origin.
InitLive ==
    /\ cfg \in {CfgTight, CfgLoose, CfgMulti}
    /\ now = 0
    /\ store_state = StateMulti
    /\ store_hist = <<>>
    /\ locks = {}
    /\ pc = [w \in Workers |-> "idle"]
    /\ wstate = [w \in Workers |-> NoState]
    /\ whist = [w \in Workers |-> <<>>]
    /\ wsel = [w \in Workers |-> NoResult]
    /\ wentry = [w \in Workers |-> NoEntry]
    /\ wbuf = [w \in Workers |-> NoBuf]
    /\ did = [w \in Workers |-> <<>>]
    /\ ret = [w \in Workers |-> RetRunning]
    /\ log = {}
    /\ ovl = [w \in Workers |-> FALSE]
    /\ fin = 0
    /\ runs = 0
    /\ events = 0
    /\ tpc = [t \in Trackers |-> "idle"]
    /\ treq = [t \in Trackers |-> NoReq]
    /\ StsIdle
    /\ ev = NoEval
    /\ evOut = NoEval

\* No call of a worker to the store or to the messenger has failed.
NoFailure == \A w \in Workers : \A i \in DOMAIN did[w] : did[w][i].res # "err"

\* The scheduler starts the worker binary again once its run has ended.
RunAgain ==
    /\ runs = MaxRequests
    /\ \A w \in Workers : pc[w] = "idle"
    /\ runs' = 0
    /\ UNCHANGED <<now, store_state, store_hist, locks, pc, wstate, whist, wsel,
                   wentry, wbuf, did, ret, log, trackerVars, envVars, ghostVars>>

\* The steps of worker w when the store and the messenger work.
LiveStep(w) ==
    /\ \/ Scan(w)
       \/ GetHistory(w)
       \/ Evaluate(w)
       \/ AcquireLock(w)
       \/ AppendGet(w)
       \/ AppendSet(w)
       \/ Send(w)
       \/ TouchGet(w)
       \/ TouchSet(w)
       \/ Return(w)
    /\ NoFailure'

NextLive ==
    \/ \E w \in Workers : LiveStep(w)
    \/ RunAgain
    \/ Tick

\* Every run that has started goes on, the scheduler keeps starting runs and
\* time passes.
SpecLive ==
    /\ InitLive
    /\ [][NextLive]_vars
    /\ \A w \in Workers : WF_vars(LiveStep(w))
    /\ WF_vars(RunAgain)
    /\ WF_vars(Tick)

(* ------------------------- selection specification --------------------- *)
\* FindTriggeredRule applied to rule lists drawn from bounded sets.
RuleNames == <<"r1", "r2", "r3", "r4", "r5">>

FindRuleLists ==
    UNION {{[i \in 1..n |-> MkRule(RuleNames[i], en[i], im[i], 1)] :
               en \in [1..n -> BOOLEAN], im \in [1..n -> 1..2]} : n \in 0..MaxRules}

FindEntries ==
    {[step |-> "s1", rule |-> r, sent_at |-> 0, template_used |-> r,
      attempt_number |-> 1] : r \in {"r1", "r2"}}

FindHistories == UNION {[1..n -> FindEntries] : n \in 0..MaxEvalHist}

InitFind ==
    /\ ev \in [rules : FindRuleLists, global : EvalGlobals, state : EvalStates,
               history : FindHistories, now : 0..MaxEvalTime]
    /\ evOut = NoEval
    /\ cfg = CfgTight
    /\ now = 0
    /\ store_state = NoState
    /\ store_hist = <<>>
    /\ locks = {}
    /\ pc = [w \in Workers |-> "idle"]
    /\ wstate = [w \in Workers |-> NoState]
    /\ whist = [w \in Workers |-> <<>>]
    /\ wsel = [w \in Workers |-> NoResult]
    /\ wentry = [w \in Workers |-> NoEntry]
    /\ wbuf = [w \in Workers |-> NoBuf]
    /\ did = [w \in Workers |-> <<>>]
    /\ ret = [w \in Workers |-> RetRunning]
    /\ ovl = [w \in Workers |-> FALSE]
    /\ fin = 0
    /\ log = {}
    /\ runs = 0
    /\ events = 0
    /\ tpc = [t \in Trackers |-> "idle"]
    /\ treq = [t \in Trackers |-> NoReq]
    /\ StsIdle

FindApply ==
    /\ evOut = NoEval
    /\ evOut' = FindTriggeredRule(ev.rules, ev.global, ev.state, ev.history, ev.now)
    /\ UNCHANGED <<cfg, ev, now, store_state, store_hist, locks, pc, wstate, whist,
                   wsel, wentry, wbuf, did, ret, ovl, fin, log, runs, events, tpc, treq,
                   stsVars>>

NextFind == FindApply

SpecFind == InitFind /\ [][NextFind]_vars

(* ------------------- the message lock, called directly ----------------- *)
LockRules == {"r1", "r2"}
LockAttempts == {1, 2}
NoLockCall == [n |-> 0, rule |-> "", attempt |-> 0, at |-> 0]

InitLock ==
    /\ ev = NoLockCall
    /\ evOut = [acquired |-> FALSE]
    /\ cfg = CfgTight
    /\ now = 0
    /\ store_state = NoState
    /\ store_hist = <<>>
    /\ locks = {}
    /\ pc = [w \in Workers |-> "idle"]
    /\ wstate = [w \in Workers |-> NoState]
    /\ whist = [w \in Workers |-> <<>>]
    /\ wsel = [w \in Workers |-> NoResult]
    /\ wentry = [w \in Workers |-> NoEntry]
    /\ wbuf = [w \in Workers |-> NoBuf]
    /\ did = [w \in Workers |-> <<>>]
    /\ ret = [w \in Workers |-> RetRunning]
    /\ ovl = [w \in Workers |-> FALSE]
    /\ fin = 0
    /\ log = {}
    /\ runs = 0
    /\ events = 0
    /\ tpc = [t \in Trackers |-> "idle"]
    /\ treq = [t \in Trackers |-> NoReq]
    /\ StsIdle

\* One AcquireMessageLock(ruleName, attemptNumber) call, Redis answering.
LockApply(ruleName, attemptNumber) ==
    /\ ev.n < MaxLockCalls
    /\ ev' = [n |-> ev.n + 1, rule |-> ruleName, attempt |-> attemptNumber,
              at |-> now]
    /\ evOut' = [acquired |-> AcquireMessageLock(locks, ruleName, attemptNumber)]
    /\ locks' = SetNX(locks, LockKey(ruleName, attemptNumber), now)
    /\ UNCHANGED <<cfg, now, store_state, store_hist, pc, wstate, whist,
                   wsel, wentry, wbuf, did, ret, ovl, fin, log, runs, events, tpc, treq,
                   stsVars>>

\* One minute passes; Redis drops the lock keys whose TTL has elapsed.
LockTick ==
    /\ now < MaxLockTime
    /\ now' = now + 1
    /\ locks' = Expire(locks, now + 1)
    /\ UNCHANGED <<cfg, ev, evOut, store_state, store_hist, pc, wstate, whist,
                   wsel, wentry, wbuf, did, ret, ovl, fin, log, runs, events, tpc, treq,
                   stsVars>>

NextLock ==
    \/ \E ruleName \in LockRules : \E attemptNumber \in LockAttempts :
          LockApply(ruleName, attemptNumber)
    \/ LockTick

SpecLock == InitLock /\ [][NextLock]_vars

(* ------------------------- STS client specification -------------------- *)
InitSts ==
    /\ StsIdle
    /\ ev = NoEval
    /\ evOut = NoEval
    /\ cfg = CfgTight
    /\ now = 0
    /\ store_state = NoState
    /\ store_hist = <<>>
    /\ locks = {}
    /\ pc = [w \in Workers |-> "idle"]
    /\ wstate = [w \in Workers |-> NoState]
    /\ whist = [w \in Workers |-> <<>>]
    /\ wsel = [w \in Workers |-> NoResult]
    /\ wentry = [w \in Workers |-> NoEntry]
    /\ wbuf = [w \in Workers |-> NoBuf]
    /\ did = [w \in Workers |-> <<>>]
    /\ ret = [w \in Workers |-> RetRunning]
    /\ ovl = [w \in Workers |-> FALSE]
    /\ fin = 0
    /\ log = {}
    /\ runs = 0
    /\ events = 0
    /\ tpc = [t \in Trackers |-> "idle"]
    /\ treq = [t \in Trackers |-> NoReq]

NextSts ==
    \/ \E g \in Goroutines : StsCall(g)
    \/ \E g \in Goroutines : FastCheck(g)
    \/ \E g \in Goroutines : LockMu(g)
    \/ \E g \in Goroutines : Recheck(g)
    \/ \E g \in Goroutines : Fetch(g)
    \/ \E g \in Goroutines : Update(g)
    \/ StsTick

SpecSts == InitSts /\ [][NextSts]_vars

(* ---------------------------- WhatsApp client -------------------------- *)
\* Values of the code field inside an API error body.
WaCodes == {100, 404, 131026}

\* What one sendRequest can meet: a failed GetToken, a transport error, or an
\* HTTP answer with its status, whether its body parses, and the error code
\* the body carries.
WaResponses ==
    {[kind |-> "token", status |-> 0, parses |-> FALSE, code |-> 0],
     [kind |-> "transport", status |-> 0, parses |-> FALSE, code |-> 0],
     [kind |-> "http", status |-> 200, parses |-> TRUE, code |-> 0],
     [kind |-> "http", status |-> 200, parses |-> FALSE, code |-> 0],
     [kind |-> "http", status |-> 400, parses |-> FALSE, code |-> 0],
     [kind |-> "http", status |-> 500, parses |-> FALSE, code |-> 0]}
    \cup {[kind |-> "http", status |-> st, parses |-> TRUE, code |-> c] :
             st \in {400, 500}, c \in WaCodes}

PlainError(why) == [type |-> "error", why |-> why, code |-> 0]
WhatsAppError(c) == [type |-> "WhatsAppError", why |-> "api", code |-> c]
NilError == [type |-> "nil", why |-> "", code |-> 0]

\* sendRequest: the error it returns for a response (NilError on success).
sendRequest(resp) ==
    IF resp.kind = "token" THEN PlainError("get access token")
    ELSE IF resp.kind = "transport" THEN PlainError("send request")
    ELSE IF resp.status # 200
         THEN IF resp.parses THEN WhatsAppError(resp.code)
              ELSE PlainError("whatsapp api error (status)")
    ELSE IF ~resp.parses THEN PlainError("unmarshal response")
    ELSE NilError

\* Variant: the wait before a retry does not look at ctx.
RECURSIVE SendLoop_NoCancel(_, _, _, _, _)
SendLoop_NoCancel(responses, maxRetries, cancelAt, attempt, lastErr) ==
    IF attempt > maxRetries
    THEN [requests |-> attempt, waits |-> attempt - 1,
          err |-> [type |-> "error", why |-> "failed after retries",
                   code |-> lastErr.code]]
    ELSE LET err == sendRequest(responses[attempt + 1]) IN
         IF err = NilError
         THEN [requests |-> attempt + 1, waits |-> attempt, err |-> NilError]
         ELSE IF err.type = "WhatsAppError" /\ err.code >= 400 /\ err.code < 500
         THEN [requests |-> attempt + 1, waits |-> attempt, err |-> err]
         ELSE SendLoop_NoCancel(responses, maxRetries, cancelAt, attempt + 1, err)

\* The retry loop of WhatsAppClient.Send from `attempt` on: the requests made,
\* the waits of RetryDelay sat out, and the error returned. ctx is done from
\* the wait that follows request number `cancelAt` on (0: never).
RECURSIVE SendLoop(_, _, _, _, _)
SendLoop(responses, maxRetries, cancelAt, attempt, lastErr) ==
    IF attempt > maxRetries
    THEN [requests |-> attempt, waits |-> IF attempt > 0 THEN attempt - 1 ELSE 0,
          err |-> [type |-> "error", why |-> "failed after retries",
                   code |-> lastErr.code]]
    ELSE IF attempt > 0 /\ cancelAt > 0 /\ attempt >= cancelAt
    THEN [requests |-> attempt, waits |-> attempt - 1, err |-> PlainError("ctx.Err")]
    ELSE LET err == sendRequest(responses[attempt + 1]) IN
         IF err = NilError
         THEN [requests |-> attempt + 1, waits |-> attempt, err |-> NilError]
         ELSE IF err.type = "WhatsAppError" /\ err.code >= 400 /\ err.code < 500
         THEN [requests |-> attempt + 1, waits |-> attempt, err |-> err]
         ELSE SendLoop(responses, maxRetries, cancelAt, attempt + 1, err)

WhatsAppSend(responses, maxRetries, cancelAt) ==
    SendLoop(responses, maxRetries, cancelAt, 0, NilError)

InitSend ==
    /\ ev \in [responses : [1..(MaxRetries + 1) -> WaResponses],
               maxRetries : 0..MaxRetries, cancelAt : 0..MaxRetries]
    /\ evOut = NoEval
    /\ cfg = CfgTight
    /\ now = 0
    /\ store_state = NoState
    /\ store_hist = <<>>
    /\ locks = {}
    /\ pc = [w \in Workers |-> "idle"]
    /\ wstate = [w \in Workers |-> NoState]
    /\ whist = [w \in Workers |-> <<>>]
    /\ wsel = [w \in Workers |-> NoResult]
    /\ wentry = [w \in Workers |-> NoEntry]
    /\ wbuf = [w \in Workers |-> NoBuf]
    /\ did = [w \in Workers |-> <<>>]
    /\ ret = [w \in Workers |-> RetRunning]
    /\ ovl = [w \in Workers |-> FALSE]
    /\ fin = 0
    /\ log = {}
    /\ runs = 0
    /\ events = 0
    /\ tpc = [t \in Trackers |-> "idle"]
    /\ treq = [t \in Trackers |-> NoReq]
    /\ StsIdle

SendApply ==
    /\ evOut = NoEval
    /\ evOut' = WhatsAppSend(ev.responses, ev.maxRetries, ev.cancelAt)
    /\ UNCHANGED <<cfg, ev, now, store_state, store_hist, locks, pc, wstate, whist,
                   wsel, wentry, wbuf, did, ret, ovl, fin, log, runs, events, tpc, treq,
                   stsVars>>

NextSend == SendApply

SpecSend == InitSend /\ [][NextSend]_vars

\* A Send that was called runs to its return.
SpecSendFair == SpecSend /\ WF_vars(SendApply)

(* -------------------------------- Scanner ------------------------------ *)
ScanKeys == {"k1", "k2"}

\* What one SCAN call can yield; SCAN may yield nothing, and may yield a key
\* more than once.
ScanPages == {<<>>, <<"k1">>, <<"k2">>, <<"k1", "k2">>, <<"k2", "k1">>, <<"k1", "k1">>}

\* What GET finds under a key: nothing (deleted since the SCAN), a JSON
\* document of a JourneyState, or bytes json.Unmarshal rejects.
ScanValues(k) == {RedisNil, [json |-> TRUE, key |-> k], [json |-> FALSE, key |-> k]}

PipelineSizes == {1, 2}

\* The result of one GET of the pipeline and its decoding: the states it adds.
FetchOne(values, key, cancelled) ==
    IF cancelled \/ values[key] = RedisNil THEN <<>>
    ELSE IF ~values[key].json THEN <<>>
    ELSE <<[journey_state |-> values[key].key]>>

\* Variant: the first key that fails ends the batch.
RECURSIVE fetchBatch_StopAtFailure(_, _, _)
fetchBatch_StopAtFailure(values, keys, cancelled) ==
    IF keys = <<>> THEN <<>>
    ELSE IF FetchOne(values, Head(keys), cancelled) = <<>> THEN <<>>
    ELSE FetchOne(values, Head(keys), cancelled)
            \o fetchBatch_StopAtFailure(values, Tail(keys), cancelled)

\* fetchBatch: the states of the keys of the batch, failed keys skipped.
RECURSIVE fetchBatch(_, _, _)
fetchBatch(values, keys, cancelled) ==
    IF keys = <<>> THEN <<>>
    ELSE FetchOne(values, Head(keys), cancelled)
            \o fetchBatch(values, Tail(keys), cancelled)

\* Variant: the loop does not look at ctx.
CtxErr_Ignored(cancelled) == FALSE

\* ctx.Err() # nil at the top of the loop.
CtxErr(cancelled) == cancelled

ScanStart == [pc |-> "scan", cursor |-> 0, next |-> 0, keyBatch |-> <<>>,
              journeys |-> <<>>, fetched |-> <<>>, scans |-> 0,
              cancelled |-> FALSE, cancelledAt |-> "", scanErr |-> FALSE,
              ret |-> "running",
              states |-> <<>>]

ScanReturn(sc, err) ==
    [sc EXCEPT !.pc = "done", !.ret = IF err THEN "err" ELSE "ok",
               !.states = IF err THEN <<>> ELSE sc.journeys]

InitScan ==
    /\ \E n \in 1..MaxPages :
          ev \in [pages : [1..n -> ScanPages],
                  values : {f \in [ScanKeys -> UNION {ScanValues(k) : k \in ScanKeys}] :
                               \A k \in ScanKeys : f[k] \in ScanValues(k)},
                  pipelineSize : PipelineSizes]
    /\ evOut = ScanStart
    /\ cfg = CfgTight
    /\ now = 0
    /\ store_state = NoState
    /\ store_hist = <<>>
    /\ locks = {}
    /\ pc = [w \in Workers |-> "idle"]
    /\ wstate = [w \in Workers |-> NoState]
    /\ whist = [w \in Workers |-> <<>>]
    /\ wsel = [w \in Workers |-> NoResult]
    /\ wentry = [w \in Workers |-> NoEntry]
    /\ wbuf = [w \in Workers |-> NoBuf]
    /\ did = [w \in Workers |-> <<>>]
    /\ ret = [w \in Workers |-> RetRunning]
    /\ ovl = [w \in Workers |-> FALSE]
    /\ fin = 0
    /\ log = {}
    /\ runs = 0
    /\ events = 0
    /\ tpc = [t \in Trackers |-> "idle"]
    /\ treq = [t \in Trackers |-> NoReq]
    /\ StsIdle

restVars == <<cfg, ev, now, store_state, store_hist, locks, pc, wstate, whist,
               wsel, wentry, wbuf, did, ret, ovl, fin, log, runs, events, tpc, treq,
               stsVars>>

\* The caller's context is cancelled while the scan runs.
ScanCancel ==
    /\ evOut.pc # "done"
    /\ ~evOut.cancelled
    /\ evOut' = [evOut EXCEPT !.cancelled = TRUE, !.cancelledAt = evOut.pc]
    /\ UNCHANGED restVars

\* One round of the loop up to the batch: the ctx check, the SCAN call, the
\* keys added to the batch.
ScanStep ==
    /\ evOut.pc = "scan"
    /\ IF CtxErr(evOut.cancelled)
       THEN evOut' = ScanReturn(evOut, TRUE)
       ELSE \/ evOut' = ScanReturn([evOut EXCEPT !.scans = @ + 1,
                                                 !.scanErr = TRUE], TRUE)
            \/ LET page == evOut.cursor + 1
                   nextCursor == IF page = Len(ev.pages) THEN 0 ELSE page
                   keyBatch == evOut.keyBatch \o ev.pages[page]
                   sc == [evOut EXCEPT !.scans = @ + 1, !.keyBatch = keyBatch,
                                       !.next = nextCursor]
               IN IF Len(keyBatch) >= ev.pipelineSize \/ nextCursor = 0
                  THEN evOut' = [sc EXCEPT !.pc = "fetch"]
                  ELSE evOut' = [sc EXCEPT !.cursor = nextCursor]
    /\ UNCHANGED restVars

\* The pipelined multi-get of the batch, then the cursor moves on.
ScanFetch ==
    /\ evOut.pc = "fetch"
    /\ LET sc == [evOut EXCEPT
                    !.journeys = @ \o fetchBatch(ev.values, evOut.keyBatch,
                                                 evOut.cancelled),
                    !.fetched = @ \o evOut.keyBatch,
                    !.keyBatch = <<>>,
                    !.cursor = evOut.next]
       IN IF evOut.next = 0
          THEN evOut' = ScanReturn(sc, FALSE)
          ELSE evOut' = [sc EXCEPT !.pc = "scan"]
    /\ UNCHANGED restVars

NextScan == ScanCancel \/ ScanStep \/ ScanFetch

SpecScan == InitScan /\ [][NextScan]_vars

(* ------------------------------ config loader -------------------------- *)
JourneyIds == {"j1", "j2"}

NoConfig == [absent |-> TRUE]

\* YAML documents AppConfig can serve: whole ones, ones with a top-level key
\* left out, ones with a value the load is to refuse.
YamlBodies ==
    {CfgTight, CfgLoose,
     [global |-> CfgLoose.global, steps |-> CfgLoose.steps],
     [journey |-> "j1", steps |-> CfgLoose.steps],
     [journey |-> "j1", global |-> CfgLoose.global],
     [CfgLoose EXCEPT !.global.max_total_attempts = 0],
     [CfgLoose EXCEPT !.global.min_interval_between_attempts_minutes = 0],
     [CfgLoose EXCEPT !.steps[1].name = ""],
     [CfgLoose EXCEPT !.steps[1].recovery_rules[1].name = ""],
     [CfgLoose EXCEPT !.steps[1].recovery_rules[2].inactive_minutes = 0],
     [CfgLoose EXCEPT !.steps[1].recovery_rules[2].max_attempts = 0],
     [CfgLoose EXCEPT !.steps[1].recovery_rules[1].template = ""]}

\* What the GET of a profile can come back with.
ProfileResponses ==
    {[kind |-> "transport"], [kind |-> "http", status |-> 404],
     [kind |-> "http", status |-> 200, yaml |-> FALSE]}
    \cup {[kind |-> "http", status |-> 200, yaml |-> TRUE, body |-> b] : b \in YamlBodies}

\* yaml.Unmarshal into a JourneyConfig: a key the document leaves out keeps
\* the zero value of its field.
UnmarshalConfig(body) ==
    [journey |-> IF "journey" \in DOMAIN body THEN body.journey ELSE "",
     global |-> IF "global" \in DOMAIN body THEN body.global
                ELSE [enabled |-> FALSE, max_total_attempts |-> 0,
                      min_interval_between_attempts_minutes |-> 0],
     steps |-> IF "steps" \in DOMAIN body THEN body.steps ELSE <<>>]

\* loadProfile, yaml.Unmarshal and ValidateJourneyConfig on one response: the
\* config and the error of the load.
LoadResult(resp) ==
    IF resp.kind = "transport" \/ resp.status # 200
    THEN [cfg |-> NoConfig, err |-> "load"]
    ELSE IF ~resp.yaml THEN [cfg |-> NoConfig, err |-> "parse"]
    ELSE IF ~ValidateJourneyConfig(UnmarshalConfig(resp.body))
    THEN [cfg |-> NoConfig, err |-> "validate"]
    ELSE [cfg |-> UnmarshalConfig(resp.body), err |-> "nil"]

\* Variant: whatever was parsed is cached.
CacheAfter_Always(cache, id, resp) ==
    IF LoadResult(resp).err \in {"nil", "validate"}
    THEN [cache EXCEPT ![id] = UnmarshalConfig(resp.body)]
    ELSE cache

\* l.cache after the load of `id` met `resp`.
CacheAfter(cache, id, resp) ==
    IF LoadResult(resp).err = "nil"
    THEN [cache EXCEPT ![id] = LoadResult(resp).cfg]
    ELSE cache

NoLoad == [status |-> "none", id |-> "", cfg |-> NoConfig, err |-> "none",
           fetched |-> FALSE, resp |-> [kind |-> "none"]]

LoaderStart ==
    [cache |-> [j \in JourneyIds |-> NoConfig], mu |-> "none",
     lpc |-> [g \in Goroutines |-> "idle"],
     lcall |-> [g \in Goroutines |-> NoLoad],
     fetches |-> 0, calls |-> 0, cleared |-> FALSE]

InitLoad ==
    /\ ev = NoEval
    /\ evOut = LoaderStart
    /\ cfg = CfgTight
    /\ now = 0
    /\ store_state = NoState
    /\ store_hist = <<>>
    /\ locks = {}
    /\ pc = [w \in Workers |-> "idle"]
    /\ wstate = [w \in Workers |-> NoState]
    /\ whist = [w \in Workers |-> <<>>]
    /\ wsel = [w \in Workers |-> NoResult]
    /\ wentry = [w \in Workers |-> NoEntry]
    /\ wbuf = [w \in Workers |-> NoBuf]
    /\ did = [w \in Workers |-> <<>>]
    /\ ret = [w \in Workers |-> RetRunning]
    /\ ovl = [w \in Workers |-> FALSE]
    /\ fin = 0
    /\ log = {}
    /\ runs = 0
    /\ events = 0
    /\ tpc = [t \in Trackers |-> "idle"]
    /\ treq = [t \in Trackers |-> NoReq]
    /\ StsIdle

LoadCall(g, id) ==
    /\ evOut.lpc[g] = "idle"
    /\ evOut.calls < MaxLoadCalls
    /\ evOut' = [evOut EXCEPT !.calls = @ + 1, !.lpc[g] = "rlock",
                              !.lcall[g] = [NoLoad EXCEPT !.status = "running",
                                                          !.id = id]]
    /\ UNCHANGED restVars

\* RLock, look-up, RUnlock.
LoadFast(g) ==
    /\ evOut.lpc[g] = "rlock"
    /\ evOut.mu = "none"
    /\ LET id == evOut.lcall[g].id IN
       IF evOut.cache[id] # NoConfig
       THEN evOut' = [evOut EXCEPT !.lpc[g] = "idle",
                                   !.lcall[g].status = "returned",
                                   !.lcall[g].cfg = evOut.cache[id],
                                   !.lcall[g].err = "nil"]
       ELSE evOut' = [evOut EXCEPT !.lpc[g] = "lock"]
    /\ UNCHANGED restVars

LoadLock(g) ==
    /\ evOut.lpc[g] = "lock"
    /\ evOut.mu = "none"
    /\ evOut' = [evOut EXCEPT !.mu = g, !.lpc[g] = "locked"]
    /\ UNCHANGED restVars

\* Under the exclusive lock: second look-up, else fetch, parse, validate and
\* populate; the lock is released on return.
LoadSlow(g) ==
    /\ evOut.lpc[g] = "locked"
    /\ LET id == evOut.lcall[g].id IN
       IF evOut.cache[id] # NoConfig
       THEN evOut' = [evOut EXCEPT !.lpc[g] = "idle", !.mu = "none",
                                   !.lcall[g].status = "returned",
                                   !.lcall[g].cfg = evOut.cache[id],
                                   !.lcall[g].err = "nil"]
       ELSE \E resp \in ProfileResponses :
               evOut' = [evOut EXCEPT !.lpc[g] = "idle", !.mu = "none",
                                      !.fetches = @ + 1,
                                      !.cache = CacheAfter(evOut.cache, id, resp),
                                      !.lcall[g].status = "returned",
                                      !.lcall[g].fetched = TRUE,
                                      !.lcall[g].resp = resp,
                                      !.lcall[g].cfg = LoadResult(resp).cfg,
                                      !.lcall[g].err = LoadResult(resp).err]
    /\ UNCHANGED restVars

ClearCache ==
    /\ evOut.mu = "none"
    /\ ~evOut.cleared
    /\ evOut' = [evOut EXCEPT !.cache = [j \in JourneyIds |-> NoConfig],
                              !.cleared = TRUE]
    /\ UNCHANGED restVars

NextLoad ==
    \/ \E g \in Goroutines : \E id \in JourneyIds : LoadCall(g, id)
    \/ \E g \in Goroutines : LoadFast(g)
    \/ \E g \in Goroutines : LoadLock(g)
    \/ \E g \in Goroutines : LoadSlow(g)
    \/ ClearCache

SpecLoad == InitLoad /\ [][NextLoad]_vars

(* ------------------------------- orchestrator -------------------------- *)
\* The two orchestrators of the repository: handler.Run, which cmd/main.go
\* calls, and App.processJourneyGroups of internal/app.
Orchestrators == {"handler", "app"}

\* What ProcessJourney returns for the states of a group, in scan order.
GroupStates == {<<"ok">>, <<"err">>, <<"ok", "err">>, <<"err", "ok">>, <<"ok", "ok">>}

\* A group of the run: whether its config loads, and loads as a journey
\* switched off, and its states.
RunGroups(impl) ==
    [load : IF impl = "handler" THEN {"ok", "fail", "disabled"} ELSE {"ok", "fail"},
     states : GroupStates]

RunStart == [pc |-> "group", g |-> 1, i |-> 1, processed |-> 0, skipped |-> 0,
             errors |-> 0, called |-> <<>>, cancelled |-> FALSE]

InitRun ==
    /\ \E impl \in Orchestrators : \E n \in 1..MaxGroups :
          ev \in [impl : {impl}, groups : [1..n -> RunGroups(impl)]]
    /\ evOut = RunStart
    /\ cfg = CfgTight
    /\ now = 0
    /\ store_state = NoState
    /\ store_hist = <<>>
    /\ locks = {}
    /\ pc = [w \in Workers |-> "idle"]
    /\ wstate = [w \in Workers |-> NoState]
    /\ whist = [w \in Workers |-> <<>>]
    /\ wsel = [w \in Workers |-> NoResult]
    /\ wentry = [w \in Workers |-> NoEntry]
    /\ wbuf = [w \in Workers |-> NoBuf]
    /\ did = [w \in Workers |-> <<>>]
    /\ ret = [w \in Workers |-> RetRunning]
    /\ ovl = [w \in Workers |-> FALSE]
    /\ fin = 0
    /\ log = {}
    /\ runs = 0
    /\ events = 0
    /\ tpc = [t \in Trackers |-> "idle"]
    /\ treq = [t \in Trackers |-> NoReq]
    /\ StsIdle

\* The context of the run is cancelled.
RunCancel ==
    /\ evOut.pc # "done"
    /\ ~evOut.cancelled
    /\ evOut' = [evOut EXCEPT !.cancelled = TRUE]
    /\ UNCHANGED restVars

\* What a failed config load adds to the error count.
LoadFailureErrors(impl, states) == IF impl = "handler" THEN 1 ELSE Len(states)

\* Top of the loop over the groups: the config of the next group is loaded.
RunGroup ==
    /\ evOut.pc = "group"
    /\ IF evOut.g > Len(ev.groups)
       THEN evOut' = [evOut EXCEPT !.pc = "done"]
       ELSE LET group == ev.groups[evOut.g] IN
            CASE group.load = "fail" ->
                    evOut' = [evOut EXCEPT
                                !.errors = @ + LoadFailureErrors(ev.impl, group.states),
                                !.g = @ + 1]
              [] group.load = "disabled" ->
                    evOut' = [evOut EXCEPT !.skipped = @ + Len(group.states),
                                           !.g = @ + 1]
              [] OTHER -> evOut' = [evOut EXCEPT !.pc = "state", !.i = 1]
    /\ UNCHANGED restVars

\* Whether the loop over the states stops at a cancelled context.
StopsOnCancel(impl, cancelled) == impl = "app" /\ cancelled

\* One round of the loop over the states of the group: the state is handed to
\* ProcessJourney, whose store calls fail on a cancelled context.
RunState ==
    /\ evOut.pc = "state"
    /\ LET group == ev.groups[evOut.g] IN
       IF evOut.i > Len(group.states)
       THEN evOut' = [evOut EXCEPT !.pc = "group", !.g = @ + 1]
       ELSE IF StopsOnCancel(ev.impl, evOut.cancelled)
       THEN evOut' = [evOut EXCEPT !.pc = "done"]
       ELSE LET outcome == IF evOut.cancelled THEN "err" ELSE group.states[evOut.i]
            IN evOut' = [evOut EXCEPT
                           !.called = Append(@, <<evOut.g, evOut.i>>),
                           !.errors = IF outcome = "err" THEN @ + 1 ELSE @,
                           !.processed = IF outcome = "ok" THEN @ + 1 ELSE @,
                           !.i = @ + 1]
    /\ UNCHANGED restVars

NextRun == RunCancel \/ RunGroup \/ RunState

SpecRun == InitRun /\ [][NextRun]_vars

DispatchCalls(w) == SelectSeq(did[w], LAMBDA c : c.op # "GetHistory")

DispatchOrder == <<"AcquireLock", "AppendHistory", "Send", "TouchInteraction">>

\* C1: for every (rule, attempt_number) at most one AcquireMessageLock call
\* returns true and at most one worker appends a history entry carrying it.
C1_OneAppendPerAttempt ==
    \A r \in log : r.op \in {"lock", "append"} => ~r.again

\* C2: at most one message is ever handed to the messenger for a given
\* (rule, attempt_number), over all runs and interleavings.
C2_OneSendPerAttempt ==
    \A r \in log : r.op = "send" => ~r.again

\* C3: for every rule of the journey config the stored history holds at most
\* rule.max_attempts entries with that rule's name.
C3_RuleCountWithinMax ==
    \A rule \in AllRules(cfg) :
        GetRuleAttemptCount(store_hist, rule.name) <= rule.max_attempts

\* C4: the stored history never holds more than global.max_total_attempts
\* entries.
C4_TotalWithinMax ==
    Len(store_hist) <= cfg.global.max_total_attempts

\* C5: two consecutive stored history entries of the same rule are at least
\* global.min_interval_between_attempts_minutes apart in sent_at.
C5_MinIntervalKept ==
    \A i \in DOMAIN store_hist : \A j \in DOMAIN store_hist :
        (/\ i < j
         /\ store_hist[i].rule = store_hist[j].rule
         /\ \A k \in DOMAIN store_hist :
               (i < k /\ k < j) => store_hist[k].rule # store_hist[i].rule)
        => store_hist[j].sent_at - store_hist[i].sent_at
              >= cfg.global.min_interval_between_attempts_minutes

C7_FailedSendLeavesStore ==
    /\ [](\A w \in Workers : \A i \in DOMAIN DispatchCalls(w) :
             DispatchCalls(w)[i] = Call("Send", "err")
                => /\ i = Len(DispatchCalls(w))
                   /\ pc[w] = "done"
                   /\ ret[w].send = "err")
    /\ [][/\ \A w \in Workers :
                (/\ Len(did'[w]) = Len(did[w]) + 1
                 /\ did'[w][Len(did'[w])] = Call("Send", "err"))
                => UNCHANGED <<store_state, store_hist, locks>>
          /\ \A l \in locks : l \notin locks' => (now' > now /\ l.exp <= now')]_vars

C7_Witness ==
    \E w \in Workers :
        /\ pc[w] = "done"
        /\ Len(did[w]) > 0
        /\ did[w][Len(did[w])] = Call("Send", "err")
        /\ \E i \in DOMAIN store_hist : store_hist[i] = wentry[w]
        /\ LockHeld(locks, LockKey(wentry[w].rule, wentry[w].attempt_number))

\* C8: of two overlapping runs for the same customer at most one appends a
\* history entry and sends a message during the overlap.
C8_NoDoubleUp ==
    ~(\A w \in Workers :
         /\ InFlight(w)
         /\ ovl[w]
         /\ \E i \in DOMAIN did[w] : did[w][i].op = "Send")

\* C9: the stored history is append-only: every change of it keeps all the
\* entries it had, in place, and adds exactly one entry at the end.
C9_AppendOnly ==
    [][store_hist' # store_hist
          => /\ Len(store_hist') = Len(store_hist) + 1
             /\ SubSeq(store_hist', 1, Len(store_hist)) = store_hist]_vars

\* The five predicates of the evaluation, stated on the evaluated input.
EvRuleTimes == {ev.history[i].sent_at : i \in {k \in DOMAIN ev.history :
                                                 ev.history[k].rule = ev.rule.name}}
EvP1 == ev.rule.enabled
EvP2 == Len(ev.history) < ev.global.max_total_attempts
EvP3 == Cardinality({k \in DOMAIN ev.history : ev.history[k].rule = ev.rule.name})
            < ev.rule.max_attempts
EvP4 == \/ EvRuleTimes = {}
        \/ \E m \in EvRuleTimes :
              /\ \A x \in EvRuleTimes : x <= m
              /\ ev.now - m >= ev.global.min_interval_between_attempts_minutes
EvP5 == ev.now - ev.state.last_interaction_at >= ev.rule.inactive_minutes

EvFirstFailure ==
    IF ~EvP1 THEN ReasonDisabled
    ELSE IF ~EvP2 THEN ReasonGlobalMax
    ELSE IF ~EvP3 THEN ReasonRuleMax
    ELSE IF ~EvP4 THEN ReasonMinInterval
    ELSE IF ~EvP5 THEN ReasonInactivity
    ELSE ReasonAllMet

\* C10: EvaluateRecoveryRule triggers iff the five predicates hold, and
\* otherwise reports the reason of the first failing predicate, in the order
\* enabled, global budget, rule budget, min interval, inactivity.
C10_TriggersIffAllFive ==
    evOut # NoEval =>
        /\ evOut.ShouldTrigger <=> (EvP1 /\ EvP2 /\ EvP3 /\ EvP4 /\ EvP5)
        /\ evOut.Reason = EvFirstFailure
        /\ evOut.Rule = ev.rule

C10_Witness ==
    /\ evOut # NoEval
    /\ evOut.ShouldTrigger
    /\ EvRuleTimes # {}

\* The latest sent_at of the evaluated rule in the evaluated history.
EvLastSent == CHOOSE m \in EvRuleTimes : \A x \in EvRuleTimes : x <= m

\* C11: boundaries of the evaluator: no trigger when the total count equals
\* max_total_attempts or the rule's count equals rule.max_attempts; a time
\* since the rule's last sent_at equal to the min interval does not block, and
\* a time since last_interaction_at equal to inactive_minutes does not block.
C11_Boundaries ==
    evOut # NoEval =>
        /\ Len(ev.history) = ev.global.max_total_attempts => ~evOut.ShouldTrigger
        /\ Cardinality({k \in DOMAIN ev.history : ev.history[k].rule = ev.rule.name})
              = ev.rule.max_attempts => ~evOut.ShouldTrigger
        /\ (/\ EvRuleTimes # {}
            /\ ev.now - EvLastSent = ev.global.min_interval_between_attempts_minutes)
              => evOut.Reason # ReasonMinInterval
        /\ ev.now - ev.state.last_interaction_at = ev.rule.inactive_minutes
              => evOut.Reason # ReasonInactivity

C11_Witness ==
    /\ evOut # NoEval
    /\ evOut.ShouldTrigger
    /\ EvRuleTimes # {}
    /\ ev.now - EvLastSent = ev.global.min_interval_between_attempts_minutes
    /\ ev.now - ev.state.last_interaction_at = ev.rule.inactive_minutes

\* The five predicates for the rule at position i of the evaluated rule list.
FindRuleSent(i) == {ev.history[k].sent_at : k \in {j \in DOMAIN ev.history :
                                                    ev.history[j].rule = ev.rules[i].name}}

FindEligible(i) ==
    /\ ev.rules[i].enabled
    /\ Len(ev.history) < ev.global.max_total_attempts
    /\ Cardinality({k \in DOMAIN ev.history : ev.history[k].rule = ev.rules[i].name})
          < ev.rules[i].max_attempts
    /\ \A x \in FindRuleSent(i) :
          (\A y \in FindRuleSent(i) : y <= x)
             => ev.now - x >= ev.global.min_interval_between_attempts_minutes
    /\ ev.now - ev.state.last_interaction_at >= ev.rules[i].inactive_minutes

FindEligibleSet == {i \in DOMAIN ev.rules : FindEligible(i)}

\* C12: FindTriggeredRule returns none when no rule triggers, and otherwise the
\* triggered rule of largest inactive_minutes, the first in config order among
\* those of that largest value; it never returns a rule that did not trigger.
C12_SelectsHighestFirst ==
    evOut # NoEval =>
        IF FindEligibleSet = {} THEN evOut = NoResult
        ELSE \E i \in FindEligibleSet :
                /\ evOut.ShouldTrigger
                /\ evOut.Rule = ev.rules[i]
                /\ \A j \in FindEligibleSet :
                      /\ ev.rules[j].inactive_minutes <= ev.rules[i].inactive_minutes
                      /\ ev.rules[j].inactive_minutes = ev.rules[i].inactive_minutes
                            => i <= j

C12_Witness ==
    /\ evOut # NoEval
    /\ evOut # NoResult
    /\ \E i \in FindEligibleSet : \E j \in FindEligibleSet : \E k \in FindEligibleSet :
          /\ evOut.Rule = ev.rules[i]
          /\ i < j
          /\ ev.rules[j].inactive_minutes = ev.rules[i].inactive_minutes
          /\ k < i
          /\ ev.rules[k].inactive_minutes < ev.rules[i].inactive_minutes

\* The calls of kind op in the current dispatch of worker w.
CallsOf(w, op) == {i \in DOMAIN did[w] : did[w][i].op = op}

\* Every rule of the step of the state scanned by w passes the five predicates
\* on the state and history w holds, at the current instant.
AllRulesEligible(w) ==
    /\ Len(whist[w]) < cfg.global.max_total_attempts
    /\ \A rule \in AllRules(cfg) :
          /\ rule.enabled
          /\ \A k \in DOMAIN whist[w] :
                /\ whist[w][k].rule # rule.name
          /\ now - wstate[w].last_interaction_at >= rule.inactive_minutes

\* C13: one invocation of ProcessJourney appends at most one history entry and
\* sends at most one message, for the one rule it selected; when the rules of
\* 10, 20 and 30 minutes are all eligible the selected rule is the 30-minute one.
C13_OneRulePerInvocation ==
    /\ [](\A w \in Workers :
             /\ Cardinality(CallsOf(w, "AppendHistory")) <= 1
             /\ Cardinality(CallsOf(w, "Send")) <= 1
             /\ wentry[w] # NoEntry => wentry[w].rule = wsel[w].Rule.name)
    /\ [][\A w \in Workers :
             (/\ pc[w] = "evaluate"
              /\ pc'[w] # "evaluate"
              /\ wstate[w].step = "s1"
              /\ AllRulesEligible(w))
                => /\ pc'[w] = "acquire_lock"
                   /\ wsel'[w].Rule.name = "r30"]_vars

C13_Witness ==
    \E w \in Workers :
        /\ pc[w] = "done"
        /\ wentry[w].rule = "r30"
        /\ whist[w] = <<>>
        /\ store_hist = <<wentry[w]>>
        /\ \E i \in CallsOf(w, "Send") : did[w][i].res = "ok"

\* C14: once FinishJourney has completed and until a new event arrives, no
\* worker appends a history entry and no worker hands a message to the
\* messenger, a run that scanned the state before the Finish included.
C14_NothingAfterFinish ==
    [][fin > 0 => /\ store_hist' = store_hist
                  /\ \A w \in Workers : CallsOf(w, "Send")' \subseteq CallsOf(w, "Send")]_vars

\* C15: while the state of the pair exists, journey_started_at of the stored
\* state never changes, under any interleaving of RecordEvent calls and
\* worker touches.
C15_JourneyStartFixed ==
    [][(store_state # NoState /\ store_state' # NoState)
          => store_state'.journey_started_at = store_state.journey_started_at]_vars

\* step_started_at RecordEvent has to write for the request of slot t.
ExpectedStepStart(t) ==
    IF treq[t].existing = NoState THEN treq[t].now
    ELSE IF treq[t].existing.step # treq[t].step THEN treq[t].now
    ELSE treq[t].existing.step_started_at

\* C16: the state RecordEvent saves has step_started_at equal to the server
\* time of the call when it found no state or a state of another step, and
\* equal to the step_started_at it found when the step is the same.
C16_StepStart ==
    [][\A t \in Trackers :
          (tpc[t] = "save" /\ tpc'[t] = "idle")
             => \/ store_state' = store_state
                \/ /\ store_state'.step = treq[t].step
                   /\ store_state'.step_started_at = ExpectedStepStart(t)
                   /\ treq[t].now <= now]_vars

C16_Witness ==
    /\ store_state # NoState
    /\ store_state.step = "s2"
    /\ store_state.journey_started_at = 0
    /\ store_state.step_started_at = MessageLockTTL
    /\ \A t \in Trackers : tpc[t] = "idle"

\* C17: last_interaction_at of the stored state never decreases, over any
\* interleaving of RecordEvent calls and worker touches.
C17_LastInteractionMonotone ==
    [][(store_state # NoState /\ store_state' # NoState)
          => store_state'.last_interaction_at >= store_state.last_interaction_at]_vars

\* C18: the write of a worker's touch on an existing state changes
\* last_interaction_at only: every other field of the stored state is left as
\* the latest event wrote it.
C18_TouchChangesOnlyLastInteraction ==
    [][\A w \in Workers :
          (/\ pc[w] = "touch_set"
           /\ pc'[w] # "touch_set"
           /\ store_state # NoState
           /\ store_state' # store_state)
             => store_state' = [store_state EXCEPT !.last_interaction_at =
                                    store_state'.last_interaction_at]]_vars

\* C19: UpdateLastInteractionAt called while the state key is absent returns
\* without error and does not create the key (the store answering the GET).
C19_TouchOnAbsentKeyIsNoOp ==
    [][\A w \in Workers :
          (/\ pc[w] = "touch_get"
           /\ store_state = NoState
           /\ pc'[w] = "done"
           /\ ret'[w].touch # "err")
             => /\ ret'[w].touch = "nil"
                /\ store_state' = NoState]_vars

\* C20: FinishJourney is idempotent: it succeeds whether or not the state key
\* exists, deleting twice gives the key's value and the result of deleting
\* once, and a Finish completing after another leaves the store as it found it.
C20_FinishIdempotent ==
    /\ [](LET once == DeleteJourneyState(store_state, TRUE)
              twice == DeleteJourneyState(once.state, TRUE)
          IN /\ ~once.err
             /\ twice = once
             /\ ~DeleteJourneyState(NoState, TRUE).err)
    /\ [][fin' > fin
             => /\ store_state' = NoState
                /\ UNCHANGED <<store_hist, locks>>
                /\ store_state = NoState => UNCHANGED store_state]_vars

C20_Witness ==
    /\ fin = 2
    /\ store_state = NoState
    /\ events = MaxRequests

C22_AbsentHistoryIsEmpty ==
    /\ [](GetRepiqueHistory(RepiquesDoc(store_hist)).err # "ErrNotFound")
    /\ [](store_hist = <<>> =>
            GetRepiqueHistory(RepiquesDoc(store_hist)) =
                [history |-> <<>>, err |-> "nil"])
    /\ [][\A w \in Workers :
            (pc[w] = "process" /\ pc'[w] = "evaluate" /\ store_hist = <<>>)
               => /\ whist'[w] = <<>>
                  /\ did'[w] = Append(did[w], Call("GetHistory", "ok"))]_vars

C22_Witness ==
    /\ pc["w1"] = "evaluate"
    /\ store_hist = <<>>
    /\ whist["w1"] = <<>>
    /\ did["w1"][Len(did["w1"])] = Call("GetHistory", "ok")

\* C23: AcquireMessageLock returns true exactly when no unexpired lock key
\* exists for that very (rule, attempt); a second acquisition of the same key
\* before the TTL has elapsed returns false; a lock held for another attempt
\* number or another rule never makes it return false.
C23_LockPerRuleAttempt ==
    /\ [][ev'.n > ev.n =>
            (evOut'.acquired <=>
               ~\E l \in locks : /\ l.rule = ev'.rule
                                 /\ l.attempt = ev'.attempt
                                 /\ l.exp > now)]_vars
    /\ [][(/\ ev'.n > ev.n
           /\ ev.n > 0
           /\ evOut.acquired
           /\ ev'.rule = ev.rule
           /\ ev'.attempt = ev.attempt
           /\ now < ev.at + MessageLockTTL) => ~evOut'.acquired]_vars

C23_Witness ==
    /\ ev.rule = "r1"
    /\ ev.attempt = 2
    /\ evOut.acquired
    /\ \E l \in locks : l.rule = "r1" /\ l.attempt = 1 /\ l.exp > now
    /\ \E l \in locks : l.rule = "r2" /\ l.attempt = 2 /\ l.exp > now

\* C24: when AcquireMessageLock returns false, the dispatch ends there:
\* ProcessJourney returns nil, the refused call changes nothing in the store,
\* and the run makes no AppendHistory, Send or TouchInteraction call.
C24_RefusedLockEndsDispatch ==
    /\ [](\A w \in Workers :
             (\E i \in DOMAIN did[w] : did[w][i] = Call("AcquireLock", "held"))
                => /\ DispatchCalls(w) = <<Call("AcquireLock", "held")>>
                   /\ pc[w] = "done"
                   /\ ret[w] = [process |-> "nil", send |-> "nil", touch |-> "none"])
    /\ [][\A w \in Workers :
             (/\ Len(did'[w]) = Len(did[w]) + 1
              /\ did'[w][Len(did'[w])] = Call("AcquireLock", "held"))
                => UNCHANGED <<store_state, store_hist, locks, log>>]_vars

C24_Witness ==
    /\ pc["w1"] = "done"
    /\ DispatchCalls("w1") = <<Call("AcquireLock", "held")>>
    /\ LockHeld(locks, LockKey(wsel["w1"].Rule.name,
                               AttemptNumber(whist["w1"], wsel["w1"].Rule)))
    /\ ret["w1"].process = "nil"

\* The last store or messenger call of the run of worker w failed.
LastCallFailed(w) ==
    /\ Len(did[w]) > 0
    /\ did[w][Len(did[w])].res = "err"
    /\ did[w][Len(did[w])].op \in {"GetHistory", "AcquireLock", "AppendHistory"}

\* C25: a run whose GetHistory, AcquireLock or AppendHistory call failed makes
\* ProcessJourney return an error to the orchestrator.
C25_StoreFailuresSurface ==
    \A w \in Workers :
        (pc[w] = "done" /\ LastCallFailed(w)) => ret[w].process # "nil"

\* The run of worker w is one ProcessJourney is to skip: the journey is
\* switched off, or the step of the state is not a step of the config.
SkippedRun(w) ==
    /\ pc[w] # "idle"
    /\ \/ ~cfg.global.enabled
       \/ \A i \in DOMAIN cfg.steps : cfg.steps[i].name # wstate[w].step

\* C26 as stated: a skipped run returns success.
C26_SkippedRunReturnsNil ==
    \A w \in Workers : (SkippedRun(w) /\ pc[w] = "done") => ret[w].process = "nil"

\* C26, amended: a skipped run acquires no lock, writes no history, sends
\* nothing and does not touch the state; with the journey switched off it
\* calls nothing and returns nil; with an unknown step it reads the history
\* first and returns nil when that read succeeded, a JourneyError when it failed.
C26_SkippedRunHasNoEffect ==
    /\ [](\A w \in Workers :
             SkippedRun(w)
                => /\ DispatchCalls(w) = <<>>
                   /\ pc[w] \in {"process", "evaluate", "done"}
                   /\ ~cfg.global.enabled => did[w] = <<>>
                   /\ pc[w] = "done" =>
                         ret[w].process =
                             IF did[w] = <<Call("GetHistory", "err")>>
                             THEN "JourneyError" ELSE "nil")
    /\ [][\A w \in Workers :
             (SkippedRun(w) /\ pc'[w] # pc[w])
                => UNCHANGED <<store_state, store_hist, locks, log>>]_vars

C26_Witness ==
    \E w \in Workers :
        /\ pc[w] = "done"
        /\ cfg.global.enabled
        /\ wstate[w].step = "s2"
        /\ now - wstate[w].last_interaction_at >= 2 * MessageLockTTL
        /\ did[w] = <<Call("GetHistory", "ok")>>
        /\ ret[w].process = "nil"

\* The GetToken call of goroutine g returns in this step.
Returns(g) == gcall[g].status = "running" /\ gcall'[g].status = "returned"

FromCache(c) == c.status = "returned" /\ c.how \in {"fast", "recheck"}

\* C27: GetToken serves the cached token, with no HTTP exchange, exactly when
\* now < expires_at - 60s at its check of the cache; a check made at
\* now >= expires_at - 60s under the exclusive lock goes on to an exchange; a
\* token issued with expires_in of at most 60 seconds is never served from
\* the cache.
C27_CacheServedIffBuffer ==
    /\ [][\A g \in Goroutines :
            /\ (Returns(g) /\ FromCache(gcall'[g]))
                  => /\ stsNow < expiresAt - RefreshBuffer
                     /\ gcall'[g].tok = token
                     /\ gcall'[g].ex = 0
                     /\ exchanges' = exchanges
            /\ (gpc[g] = "rlock" /\ gpc'[g] # "rlock")
                  => IF stsNow < expiresAt - RefreshBuffer
                     THEN Returns(g) /\ gcall'[g].how = "fast"
                     ELSE gpc'[g] = "lock"
            /\ (gpc[g] = "recheck" /\ gpc'[g] # "recheck")
                  => IF stsNow < expiresAt - RefreshBuffer
                     THEN Returns(g) /\ gcall'[g].how = "recheck"
                     ELSE gpc'[g] = "fetch"
            /\ (gpc[g] = "fetch" /\ gpc'[g] # "fetch")
                  => exchanges' = exchanges + 1]_vars
    /\ [](\A g \in Goroutines :
             FromCache(gcall[g])
                => \E i \in DOMAIN pairs : /\ pairs[i].tok = gcall[g].tok
                                           /\ pairs[i].expiresIn > RefreshBuffer)

C27_Witness ==
    /\ Len(pairs) = 2
    /\ pairs[1].expiresIn = RefreshBuffer
    /\ exchanges = 2
    /\ \E g \in Goroutines :
          /\ gcall[g].status = "returned"
          /\ gcall[g].how = "fast"
          /\ gcall[g].tok = pairs[2].tok
          /\ stsNow > 0

\* Calls of g and h that both missed the cache after the same number of cache
\* writes, and both returned a token.
SameMiss(g, h) ==
    /\ g # h
    /\ gcall[g].status = "returned" /\ gcall[g].err = "nil"
    /\ gcall[h].status = "returned" /\ gcall[h].err = "nil"
    /\ gcall[g].miss >= 0
    /\ gcall[g].miss = gcall[h].miss
    /\ Len(pairs) > gcall[g].miss
    /\ pairs[gcall[g].miss + 1].expiresIn > RefreshBuffer

OneExchange(g, h) ==
    /\ gcall[g].tok = pairs[gcall[g].miss + 1].tok
    /\ gcall[h].tok = pairs[gcall[g].miss + 1].tok
    /\ gcall[g].ex + gcall[h].ex = 1

\* C28 as stated: concurrent callers that missed the same cache, the exchange
\* answering with expires_in > 60s, make one exchange between them and all
\* return its token.
C28_OneExchangePerMiss ==
    \A g \in Goroutines : \A h \in Goroutines :
        SameMiss(g, h) => OneExchange(g, h)

\* C28, amended: the same, for callers whose second check of the cache runs
\* before the fetched token comes within 60s of its expiry; and a token served
\* from the cache is always served against the expiry its own exchange wrote.
C28_OneExchangeWhileFresh ==
    /\ \A g \in Goroutines : \A h \in Goroutines :
          (/\ SameMiss(g, h)
           /\ gcall[g].recheckAt < pairs[gcall[g].miss + 1].expiresAt - RefreshBuffer
           /\ gcall[h].recheckAt < pairs[gcall[g].miss + 1].expiresAt - RefreshBuffer)
              => OneExchange(g, h)
    /\ \A g \in Goroutines :
          (gcall[g].status = "returned" /\ gcall[g].err = "nil")
             => \E i \in DOMAIN pairs : /\ pairs[i].tok = gcall[g].tok
                                        /\ pairs[i].expiresAt = gcall[g].exp
    /\ \/ token = EmptyToken /\ expiresAt = ZeroTime /\ pairs = <<>>
       \/ /\ pairs # <<>>
          /\ pairs[Len(pairs)].tok = token
          /\ pairs[Len(pairs)].expiresAt = expiresAt

C28_Witness ==
    /\ SameMiss("g1", "g2")
    /\ gcall["g1"].how = "fetch"
    /\ gcall["g2"].how = "recheck"
    /\ gcall["g2"].recheckAt > 0
    /\ gcall["g2"].tok = gcall["g1"].tok
    /\ exchanges = 1

\* C29: a failed fetch returns an error and the empty token and leaves the
\* cached token and expiry as they were; nothing of the failure is kept, so
\* the only way to return without an exchange is a cached token still valid;
\* GetToken never returns the empty token with a nil error.
C29_FailedFetchNotCached ==
    /\ [][\A g \in Goroutines :
            /\ (gpc[g] = "fetch" /\ gpc'[g] # "fetch"
                /\ gcall'[g].fetched.err # "nil")
                  => /\ Returns(g)
                     /\ gcall'[g].err = "err"
                     /\ gcall'[g].tok = EmptyToken
                     /\ UNCHANGED <<token, expiresAt, pairs>>
                     /\ mu' = "none"
            /\ (Returns(g) /\ gcall'[g].ex = 0)
                  => /\ CacheValid(expiresAt, stsNow)
                     /\ token # EmptyToken]_vars
    /\ [](\A g \in Goroutines :
             (gcall[g].status = "returned" /\ gcall[g].err = "nil")
                => gcall[g].tok # EmptyToken)
    /\ [](\A g \in Goroutines :
             gcall[g].status = "returned" => gcall[g].err \in {"nil", "err"})

C29_Witness ==
    /\ gcall["g1"].status = "returned"
    /\ gcall["g1"].err = "err"
    /\ gcall["g1"].fetched.err = "empty access token"
    /\ gcall["g2"].status = "returned"
    /\ gcall["g2"].how = "fetch"
    /\ gcall["g2"].err = "nil"
    /\ gcall["g2"].tok = 2
    /\ exchanges = 2
    /\ Len(pairs) = 1

\* C30: a request answered with an HTTP 4xx status and a parseable error body
\* is the last request of the Send, which returns that API error, whatever
\* the code field of the body.
C30_NoRetryAfter4xx ==
    evOut # NoEval =>
        \A i \in 1..evOut.requests :
            (/\ ev.responses[i].kind = "http"
             /\ ev.responses[i].status >= 400 /\ ev.responses[i].status < 500
             /\ ev.responses[i].parses)
               => /\ evOut.requests = i
                  /\ evOut.err = WhatsAppError(ev.responses[i].code)

\* A sendRequest outcome after which the loop of Send goes round again.
Retried(resp) ==
    \/ resp.kind \in {"token", "transport"}
    \/ resp.kind = "http" /\ ~resp.parses
    \/ resp.kind = "http" /\ resp.status # 200 /\ resp.parses
          /\ ~(resp.code >= 400 /\ resp.code < 500)

\* C31: Send returns; it makes at most max_retries + 1 requests, every request
\* but the first after one wait of retry_delay; when every request fails with
\* a network error or a retried status it returns the "failed after retries"
\* error after max_retries + 1 requests; when ctx is done at a wait it returns
\* ctx.Err() without another request.
C31_SendTerminates ==
    /\ <>(evOut # NoEval)
    /\ [](evOut # NoEval =>
            /\ evOut.requests >= 1
            /\ evOut.requests <= ev.maxRetries + 1
            /\ evOut.waits = evOut.requests - 1
            /\ \A i \in 1..(evOut.requests - 1) : Retried(ev.responses[i])
            /\ evOut.err.why = "failed after retries"
                  <=> /\ evOut.requests = ev.maxRetries + 1
                      /\ Retried(ev.responses[evOut.requests])
            /\ evOut.err.why = "ctx.Err"
                  <=> /\ ev.cancelAt > 0
                      /\ evOut.requests = ev.cancelAt
                      /\ evOut.requests <= ev.maxRetries
                      /\ Retried(ev.responses[evOut.requests])
            /\ (/\ ev.cancelAt > 0
                /\ ev.cancelAt <= ev.maxRetries
                /\ \A i \in 1..ev.cancelAt : Retried(ev.responses[i]))
                  => /\ evOut.err.why = "ctx.Err"
                     /\ evOut.requests = ev.cancelAt)

C31_Witness ==
    /\ evOut # NoEval
    /\ ev.maxRetries = MaxRetries
    /\ ev.cancelAt = 0
    /\ evOut.requests = MaxRetries + 1
    /\ evOut.waits = MaxRetries
    /\ evOut.err.why = "failed after retries"
    /\ ev.responses[1].kind = "transport"
    /\ ev.responses[2].status = 500

RECURSIVE Concat(_)
Concat(seqs) == IF seqs = <<>> THEN <<>> ELSE Head(seqs) \o Concat(Tail(seqs))

\* The keys the cursor iteration yields, in order, repetitions kept.
AllYielded == Concat(ev.pages)

Decodable(k) == IF ev.values[k] = RedisNil THEN FALSE ELSE ev.values[k].json

Count(seq, x) == Cardinality({i \in DOMAIN seq : seq[i] = x})

ScanSucceeded == evOut.pc = "done" /\ evOut.ret = "ok" /\ ~evOut.cancelled

\* C32 as stated: after a scan every yielded key was fetched once, and the
\* result holds the state of a key once if it could be fetched and decoded
\* and not at all otherwise.
C32_EachKeyFetchedOnce ==
    ScanSucceeded =>
        \A k \in ScanKeys :
            /\ Count(evOut.fetched, k) = IF Count(AllYielded, k) > 0 THEN 1 ELSE 0
            /\ Count(evOut.states, [journey_state |-> k]) =
                  IF Count(AllYielded, k) > 0 /\ Decodable(k) THEN 1 ELSE 0

\* C32, amended: a scan ends in an error only when a SCAN call fails or ctx is
\* cancelled, never in the fetch of a batch; after a scan every yielded
\* occurrence of a key was fetched once, in order, and the result holds, in
\* order, the states of the occurrences that could be fetched and decoded (a
\* key SCAN yields twice is fetched twice and its state is there twice).
C32_FailedKeysSkipped ==
    /\ [](evOut.ret = "err" => (evOut.cancelled \/ evOut.scanErr))
    /\ [][evOut.pc = "fetch" => evOut'.ret # "err"]_vars
    /\ []((evOut.pc = "done" /\ evOut.ret = "ok")
            => /\ evOut.fetched = AllYielded
               /\ evOut.scans = Len(ev.pages)
               /\ evOut.cursor = 0)
    /\ [](ScanSucceeded =>
            LET good == SelectSeq(AllYielded, Decodable) IN
            evOut.states = [i \in 1..Len(good) |-> [journey_state |-> good[i]]])

C32_Witness ==
    /\ ScanSucceeded
    /\ ev.pages = <<(<<"k1", "k2">>), (<<"k2">>)>>
    /\ ev.pipelineSize = 2
    /\ ev.values["k1"] = RedisNil
    /\ Decodable("k2")
    /\ evOut.states = <<[journey_state |-> "k2"], [journey_state |-> "k2"]>>

\* C33: a scan never reports a partial result as success: a scan that
\* returns no error returns the state of every yielded key that can be fetched
\* and decoded, also when its context was cancelled on the way.
C33_NoPartialSuccess ==
    (evOut.pc = "done" /\ evOut.ret = "ok")
        => LET good == SelectSeq(AllYielded, Decodable) IN
           evOut.states = [i \in 1..Len(good) |-> [journey_state |-> good[i]]]

\* The LoadJourneyConfig call of goroutine g returns in this step.
LoadReturns(g) ==
    evOut.lcall[g].status = "running" /\ evOut'.lcall[g].status = "returned"

\* C34: a load that finds an entry returns it without fetching; one that finds
\* none fetches once and populates the cache only when fetch, parse and
\* validation all succeeded; after a failure the id has no entry and the
\* error is returned with no config; an entry leaves the cache only by
\* ClearCache.
C34_CacheOnlyOnSuccess ==
    [][/\ \A g \in Goroutines :
             LoadReturns(g) =>
                LET id == evOut.lcall[g].id
                    call == evOut'.lcall[g]
                IN IF evOut.cache[id] # NoConfig
                   THEN /\ call.cfg = evOut.cache[id]
                        /\ call.err = "nil"
                        /\ evOut'.fetches = evOut.fetches
                        /\ evOut'.cache = evOut.cache
                   ELSE /\ evOut'.fetches = evOut.fetches + 1
                        /\ \A j \in JourneyIds : j # id => evOut'.cache[j] = evOut.cache[j]
                        /\ IF call.err = "nil"
                           THEN call.cfg # NoConfig /\ evOut'.cache[id] = call.cfg
                           ELSE call.cfg = NoConfig /\ evOut'.cache[id] = NoConfig
       /\ \A j \in JourneyIds :
             (evOut.cache[j] # NoConfig /\ evOut'.cache[j] # evOut.cache[j])
                => (evOut'.cleared /\ ~evOut.cleared)]_vars

C34_Witness ==
    /\ evOut.fetches = 2
    /\ evOut.calls = 3
    /\ evOut.cache["j1"] = CfgLoose
    /\ evOut.lcall["g1"].status = "returned"
    /\ evOut.lcall["g1"].id = "j1"
    /\ ~evOut.lcall["g1"].fetched
    /\ evOut.lcall["g1"].cfg = CfgLoose
    /\ evOut.lcall["g2"].id = "j1"
    /\ evOut.lcall["g2"].fetched
    /\ evOut.lcall["g2"].err = "nil"

\* The load invariants of a JourneyConfig.
LoadInvariants(c) ==
    /\ c.journey # ""
    /\ c.global.max_total_attempts > 0
    /\ c.global.min_interval_between_attempts_minutes > 0
    /\ \A i \in 1..Len(c.steps) :
          /\ c.steps[i].name # ""
          /\ \A j \in 1..Len(c.steps[i].recovery_rules) :
                /\ c.steps[i].recovery_rules[j].name # ""
                /\ c.steps[i].recovery_rules[j].template # ""
                /\ c.steps[i].recovery_rules[j].inactive_minutes > 0
                /\ c.steps[i].recovery_rules[j].max_attempts > 0

\* C35: every config in the cache and every config a load returned satisfies
\* the load invariants, and a load that fetched a document violating one of
\* them failed.
C35_LoadedConfigsValid ==
    /\ \A j \in JourneyIds :
          evOut.cache[j] # NoConfig => LoadInvariants(evOut.cache[j])
    /\ \A g \in Goroutines :
          LET call == evOut.lcall[g] IN
          /\ (call.status = "returned" /\ call.err = "nil") => LoadInvariants(call.cfg)
          /\ (/\ call.status = "returned"
              /\ call.fetched
              /\ call.resp.kind = "http"
              /\ call.resp.status = 200
              /\ call.resp.yaml
              /\ ~LoadInvariants(UnmarshalConfig(call.resp.body)))
                => (call.err = "validate" /\ call.cfg = NoConfig)

C35_Witness ==
    /\ evOut.lcall["g1"].status = "returned"
    /\ evOut.lcall["g1"].err = "validate"
    /\ evOut.lcall["g1"].resp.body =
          [CfgLoose EXCEPT !.steps[1].recovery_rules[2].max_attempts = 0]
    /\ evOut.lcall["g2"].status = "returned"
    /\ evOut.lcall["g2"].err = "nil"
    /\ evOut.lcall["g2"].resp.body = [journey |-> "j1", global |-> CfgLoose.global]
    /\ evOut.cache["j2"] = evOut.lcall["g2"].cfg

RECURSIVE SumSeq(_)
SumSeq(seq) == IF seq = <<>> THEN 0 ELSE Head(seq) + SumSeq(Tail(seq))

SumOver(seq, F(_)) == SumSeq([i \in DOMAIN seq |-> F(seq[i])])

\* The errors the claim counts for a group: all its states when its config
\* does not load, the states ProcessJourney fails for otherwise.
GroupErrors(group) ==
    CASE group.load = "fail" -> Len(group.states)
      [] group.load = "disabled" -> 0
      [] OTHER -> Count(group.states, "err")

GroupProcessed(group) ==
    IF group.load = "ok" THEN Count(group.states, "ok") ELSE 0

GroupCalls(group) == IF group.load = "ok" THEN Len(group.states) ELSE 0

\* C36: a run that was not cancelled goes through every group: the states of
\* a group whose config does not load are all counted as errors, every state
\* of the other enabled groups is handed to ProcessJourney, and each failure
\* of ProcessJourney is counted as one error.
C36_FailuresCountedRunGoesOn ==
    (evOut.pc = "done" /\ ~evOut.cancelled)
        => /\ evOut.errors = SumOver(ev.groups, GroupErrors)
           /\ evOut.processed = SumOver(ev.groups, GroupProcessed)
           /\ Len(evOut.called) = SumOver(ev.groups, GroupCalls)

\* C37: once the context of the run is cancelled, no further state is handed
\* to ProcessJourney.
C37_NoStateAfterCancel ==
    [][evOut.cancelled => evOut'.called = evOut.called]_vars

\* A rule of the stored state's step is due on the stored history.
RuleDue ==
    /\ store_state # NoState
    /\ cfg.global.enabled
    /\ LET stepCfg == FindStepByName(cfg, store_state.step) IN
       /\ stepCfg.name # ""
       /\ FindTriggeredRule(stepCfg.recovery_rules, cfg.global, store_state,
                            GetRepiqueHistory(RepiquesDoc(store_hist)).history,
                            now) # NoResult

\* No invocation of the worker is under way.
AllIdle == \A w \in Workers : pc[w] = "idle"

\* The messenger has just accepted a message of worker w.
JustSent(w) == pc[w] = "touch_get"

\* C38: when a rule is due for a state that stays stored, with the journey
\* enabled, budget left, the worker run again and again and neither the store
\* nor the messenger failing, a recovery message is eventually sent.
C38_DueRuleIsSent ==
    (RuleDue /\ AllIdle) ~> (\E w \in Workers : JustSent(w))

\* After a first message and a later run of the worker, a rule is due again
\* with no invocation under way.
C38_Witness ==
    /\ RuleDue
    /\ AllIdle
    /\ store_hist # <<>>
    /\ \E r \in log : r.op = "send"

\* The entries of rule `rule` before position i of history h.
EarlierEntries(h, i) == {j \in 1..(i - 1) : h[j].rule = h[i].rule}

\* C39: in the stored history every entry's attempt_number is the number of
\* earlier entries of the same rule plus one, so the numbers of a rule read
\* 1, 2, ..., k without gap or duplicate.
C39_AttemptNumbersInSequence ==
    \A i \in DOMAIN store_hist :
        store_hist[i].attempt_number = Cardinality(EarlierEntries(store_hist, i)) + 1

\* The step is the SaveJourneyState of a RecordEvent.
EventSaved == \E t \in Trackers : tpc[t] = "save" /\ tpc'[t] = "idle"

\* C40: an absent state key comes into being only by the save of a
\* RecordEvent; no step of a worker creates it, also when FinishJourney deleted
\* the key between the read and the write-back of a worker's touch.
C40_OnlyEventsCreateStateKey ==
    [][(store_state = NoState /\ store_state' # NoState) => EventSaved]_vars

====
